---- MODULE Spec2Model ----
(***************************************************************************)
(* Capability registry, request router and HTTP boundary of                *)
(* ezansi-platform-core, modelled from src/src/ezansi_platform_core.       *)
(*                                                                         *)
(* Strings that the code orders or strips (capability names, endpoint     *)
(* URLs) are sequences: a name is the sequence of its character codes, a   *)
(* URL the sequence of its tokens.  Strings that the code only compares    *)
(* for equality (types, versions, paths of contract files) are TLA+        *)
(* strings.  A Python Optional is NoneV or Some(x).                        *)
(***************************************************************************)
EXTENDS Integers, Sequences, FiniteSets, TLC

VARIABLES
    files,              \* contract_path -> index into Catalogue, 0 = no such file
    rootExists,         \* registry_path.exists()
    clock,              \* time.time(), in seconds
    overrides,          \* Overrides(capabilities, provides_aliases)
    loaded_at_s,        \* CapabilityRegistry._loaded_at_s
    records_by_name,    \* CapabilityRegistry._records_by_name
    providers_by_type,  \* CapabilityRegistry._providers_by_type
    ev,                 \* the call that made the last step, and whether it rebuilt
    scanned,            \* the contract files as the last rebuild found them
    scanClock,          \* the clock when the last rebuild scanned them
    th,                 \* per worker thread: its place in resolve_provider and its locals
    hc,                 \* per health request: its place in registry_type_health
    resp,               \* the last HTTP response
    arg,                \* the arguments of the last call of a function checked alone
    ret,                \* what that call returned or raised
    constraints,        \* the file at settings.constraints_path
    strict_mode         \* ResourceValidator._strict_mode

vars == <<files, rootExists, clock, overrides, loaded_at_s, records_by_name,
          providers_by_type, ev, scanned, scanClock, th, arg, ret, hc, resp,
          constraints, strict_mode>>

----------------------------------------------------------------------------
(* Bounds *)

MaxClock == 3

CacheTtlSeconds == 1

----------------------------------------------------------------------------
(* Python values *)

NoneV == [k |-> "none"]

Some(x) == [k |-> "some", v |-> x]

EmptyMap == [x \in {} |-> x]

Min(a, b) == IF a <= b THEN a ELSE b

\* str.__lt__: code point by code point, a proper prefix first
StrLess(a, b) ==
    \E i \in 1..(Min(Len(a), Len(b)) + 1) :
        /\ \A j \in 1..(i - 1) : a[j] = b[j]
        /\ \/ i > Len(a) /\ i <= Len(b)
           \/ i <= Len(a) /\ i <= Len(b) /\ a[i] < b[i]

\* sorted(set(...)) of strings
RECURSIVE Sorted(_)
Sorted(S) ==
    IF S = {} THEN <<>>
    ELSE LET m == CHOOSE x \in S : \A y \in S \ {x} : StrLess(x, y)
         IN  <<m>> \o Sorted(S \ {m})

Range(s) == {s[i] : i \in 1..Len(s)}

\* str.rstrip("/") on a URL given as its tokens
RECURSIVE RStripSlash(_)
RStripSlash(u) ==
    IF u # <<>> /\ u[Len(u)] = "/" THEN RStripSlash(SubSeq(u, 1, Len(u) - 1)) ELSE u

----------------------------------------------------------------------------
(* JSON documents: null, a string, a number, a list, an object, or a key   *)
(* that is missing from its object                                         *)

JNull == [k |-> "null"]

JMissing == [k |-> "missing"]

JStr(s) == [k |-> "str", v |-> s]

JList(s) == [k |-> "list", v |-> s]

\* the number n; v is str(n), its decimal text, written the way the strings
\* of the field that holds the number are written
JNum(n, text) == [k |-> "num", n |-> n, v |-> text]

\* bool(value) of a JSON value; empty is the empty string, written the way
\* the strings of the field are written
Truthy(j, empty) ==
    CASE j.k \in {"null", "missing"} -> FALSE
      [] j.k = "num" -> j.n # 0
      [] j.k = "str" -> j.v # empty
      [] j.k = "list" -> j.v # <<>>
      [] OTHER -> TRUE

\* dict.get(key): a missing key reads as None
Get(j) == IF j.k = "missing" THEN JNull ELSE j

\* dict.get(key, default)
GetDefault(j, d) == IF j.k = "missing" THEN d ELSE j

\* _as_str(value, default=empty)
as_str(value, empty) == IF value.k = "null" THEN empty ELSE value.v

----------------------------------------------------------------------------
(* Contracts: contracts.py *)

\* capability names, as character codes: "a", "ab", "b"
NameA == <<97>>

NameAB == <<97, 98>>

NameB == <<98>>

Names == {NameA, NameAB, NameB}

\* service types: "llm" and "text-generation" are alias keys in AliasChain,
\* "vector-search" is provided by no valid contract of the Catalogue
Types == {"llm", "text-generation", "chat", "vector-search"}

Raised == [ok |-> FALSE]

\* data.get("provides") or [], then wrapped into a list when it is a scalar
provides_value(data) ==
    LET v == Get(data.provides)
    IN  IF ~Truthy(v, "") THEN <<>>
        ELSE IF v.k # "list" THEN <<v>> ELSE v.v

\* tuple(_as_str(p) for p in provides_value if _as_str(p))
RECURSIVE provides_tuple(_)
provides_tuple(s) ==
    IF s = <<>> THEN <<>>
    ELSE LET p == as_str(s[1], "")
         IN  (IF p # "" THEN <<p>> ELSE <<>>) \o provides_tuple(Tail(s))

\* the api block: CapabilityApi(endpoint.rstrip("/"), health_check) when the
\* block is a mapping with a non-empty endpoint, else None
parse_api(data) ==
    LET api_block == Get(data.api)
    IN  IF api_block.k # "map" THEN NoneV
        ELSE LET endpoint == as_str(Get(api_block.endpoint), <<>>)
                 health_check ==
                     as_str(GetDefault(api_block.health_check, JStr(<<"/health">>)), <<>>)
             IN  IF endpoint # <<>>
                 THEN Some([endpoint |-> RStripSlash(endpoint),
                            health_check |-> health_check])
                 ELSE NoneV

\* a resources mapping without entries
NoResources == [k |-> "map", ram_mb |-> JMissing, storage_mb |-> JMissing]

\* lines 57-59: the resources block when it is a mapping, else {}
parse_resources(data) ==
    IF Get(data.resources).k = "map" THEN data.resources ELSE NoResources

\* str.upper() on the method names that the contracts spell
Upper(method) ==
    CASE method = "get" -> "GET"
      [] method = "post" -> "POST"
      [] method = "Put" -> "PUT"
      [] OTHER -> method

CapabilityEndpoint(method, path) == [method |-> method, path |-> path]

\* lines 67-68: method and path of one endpoint entry
parse_endpoint(endpoint_spec) ==
    CapabilityEndpoint(
        Upper(as_str(GetDefault(endpoint_spec.method, JStr("POST")), "POST")),
        as_str(Get(endpoint_spec.path), <<>>))

\* lines 61-70: the named entries that are mappings with a non-empty path
parse_endpoints(data) ==
    LET endpoints_block == Get(data.endpoints)
    IN  IF endpoints_block.k # "map" THEN EmptyMap
        ELSE [endpoint_name \in
                 {n \in DOMAIN endpoints_block.items :
                     /\ endpoints_block.items[n].k = "map"
                     /\ parse_endpoint(endpoints_block.items[n]).path # <<>>} |->
                 parse_endpoint(endpoints_block.items[endpoint_name])]

CapabilityContract(name, version, description, provides, api, endpoints, resources) ==
    [ok |-> TRUE, name |-> name, version |-> version, description |-> description,
     provides |-> provides, api |-> api, endpoints |-> endpoints,
     resources |-> resources]

\* mutant of parse_contract: the required fields are not checked
parse_contract_unchecked(data) ==
    CapabilityContract(as_str(Get(data.name), <<>>), as_str(Get(data.version), ""),
                       as_str(Get(data.description), ""),
                       provides_tuple(provides_value(data)), parse_api(data),
                       parse_endpoints(data), parse_resources(data))

\* parse_contract(data): the contract, or Raised for the ValueError
parse_contract(data) ==
    LET name     == as_str(Get(data.name), <<>>)
        version  == as_str(Get(data.version), "")
        provides == provides_tuple(provides_value(data))
    IN  IF name = <<>> \/ version = "" \/ provides = <<>>
        THEN Raised
        ELSE CapabilityContract(name, version, as_str(Get(data.description), ""),
                                provides, parse_api(data), parse_endpoints(data),
                                parse_resources(data))

\* json.loads(contract_path.read_text()) then parse_contract: reading raises
\* OSError, json.loads raises on text that is not JSON, parse_contract raises
\* AttributeError on a JSON document that is not an object
read_contract(file) ==
    IF file.io # "ok" THEN Raised
    ELSE IF file.text # "object" THEN Raised
    ELSE parse_contract(file.data)

----------------------------------------------------------------------------
(* The contract files that may lie under the registry root *)

ApiBlock(endpoint, health_check) ==
    [k |-> "map", endpoint |-> endpoint, health_check |-> health_check]

\* a contract document: a JSON object with these keys, JMissing for a key
\* it does not have
ContractDoc(name, version, description, provides, api, endpoints, resources) ==
    [name |-> name, version |-> version, description |-> description,
     provides |-> provides, api |-> api, endpoints |-> endpoints,
     resources |-> resources]

\* the resources block of a contract
Resources(ram_mb, storage_mb) ==
    [k |-> "map", ram_mb |-> ram_mb, storage_mb |-> storage_mb]

ObjectFile(name, version, provides, api, resources) ==
    [io |-> "ok", text |-> "object",
     data |-> ContractDoc(name, version, JMissing, provides, api, JMissing, resources)]

NoData ==
    ContractDoc(JMissing, JMissing, JMissing, JMissing, JMissing, JMissing, JMissing)

Catalogue == <<
    \* 1: "b" provides "llm" and "text-generation"; endpoint with a trailing slash;
    \*    needs 6000 MB of RAM
    ObjectFile(JStr(NameB), JStr("1.0"), JList(<<JStr("llm"), JStr("text-generation")>>),
               ApiBlock(JStr(<<"http://b", "/">>), JMissing),
               Resources(JNum(6000, "6000"), JMissing)),
    \* 2: "a" provides "text-generation"; needs 2000 MB of RAM and 500 MB of storage
    ObjectFile(JStr(NameA), JStr("1.0"), JStr("text-generation"),
               ApiBlock(JStr(<<"http://a">>), JStr(<<"/ping">>)),
               Resources(JNum(2000, "2000"), JNum(500, "500"))),
    \* 3: "a" again, with another type, no api block and no resources
    ObjectFile(JStr(NameA), JStr("2.0"), JList(<<JStr(""), JStr("chat")>>), JMissing,
               JMissing),
    \* 4: a file that cannot be read
    [io |-> "error", text |-> "object", data |-> NoData],
    \* 5: a file that is not JSON
    [io |-> "ok", text |-> "garbage", data |-> NoData],
    \* 6: an object that fails validation: "ab" provides "vector-search", no version
    ObjectFile(JStr(NameAB), JMissing, JList(<<JStr("vector-search")>>),
               ApiBlock(JStr(<<"http://ab">>), JMissing), JMissing)
>>

Paths == {"p1", "p2"}

NoFiles == [p \in Paths |-> 0]

----------------------------------------------------------------------------
(* Overrides: overrides.py *)

CapabilityOverride(endpoint, health_check) ==
    [endpoint |-> endpoint, health_check |-> health_check]

\* "llm" -> "text-generation" -> "chat": the canonical type of the first rule is the key
\* of the second
AliasChain == ("llm" :> "text-generation") @@ ("text-generation" :> "chat")

OverridesChoices == {
    [capabilities |-> EmptyMap, provides_aliases |-> EmptyMap],
    [capabilities |-> (NameB :> CapabilityOverride(Some(<<"http://o", "/">>), Some(<<"/hz">>)))
                        @@ (NameA :> CapabilityOverride(Some(<<"http://o2">>), NoneV)),
     provides_aliases |-> AliasChain]
}

\* dict.get(key, default)
DictGet(d, key, default) == IF key \in DOMAIN d THEN d[key] ELSE default

----------------------------------------------------------------------------
(* The registry: registry.py *)

\* mutant of CapabilityRecord: the new record takes the health fields of the
\* record that the snapshot holds under the same name
CapabilityRecord_keeps_health(contract, contract_path, api_endpoint, health_check) ==
    LET had == contract.name \in DOMAIN records_by_name
        old == records_by_name[contract.name]
    IN  [contract |-> contract, contract_path |-> contract_path,
         api_endpoint |-> api_endpoint, health_check |-> health_check,
         status |-> IF had THEN old.status ELSE "unknown",
         last_health_check_s |-> IF had THEN old.last_health_check_s ELSE NoneV,
         last_error |-> IF had THEN old.last_error ELSE NoneV]

\* CapabilityRecord(...): the dataclass, its health fields at their defaults
CapabilityRecord(contract, contract_path, api_endpoint, health_check) ==
    [contract |-> contract, contract_path |-> contract_path,
     api_endpoint |-> api_endpoint, health_check |-> health_check,
     status |-> "unknown", last_health_check_s |-> NoneV, last_error |-> NoneV]

\* _normalize_type
normalize_type(service_type) ==
    DictGet(overrides.provides_aliases, service_type, service_type)

\* mutants of cache_is_fresh: a snapshot of exactly TTL seconds still counts
\* as fresh; a snapshot never expires
cache_is_fresh_at_ttl(loaded_at, force, now) ==
    ~force /\ loaded_at # 0 /\ (now - loaded_at) <= CacheTtlSeconds

cache_never_expires(loaded_at, force, now) == ~force /\ loaded_at # 0

\* load, line 38: the cached snapshot is reused
cache_is_fresh(loaded_at, force, now) ==
    ~force /\ loaded_at # 0 /\ (now - loaded_at) < CacheTtlSeconds

\* mutant of effective_api: the override endpoint keeps its trailing slash
effective_api_override_unstripped(contract) ==
    LET endpoint0     == IF contract.api.k = "some"
                         THEN Some(contract.api.v.endpoint) ELSE NoneV
        health_check0 == IF contract.api.k = "some"
                         THEN Some(contract.api.v.health_check) ELSE NoneV
        caps          == overrides.capabilities
        has           == contract.name \in DOMAIN caps
        override      == caps[contract.name]
        endpoint      == IF has /\ override.endpoint.k = "some" /\ override.endpoint.v # <<>>
                         THEN Some(override.endpoint.v) ELSE endpoint0
        health_check  == IF has /\ override.health_check.k = "some"
                            /\ override.health_check.v # <<>>
                         THEN Some(override.health_check.v) ELSE health_check0
    IN  [endpoint |-> endpoint, health_check |-> health_check]

\* load, lines 54-62: the contract's api block, then the per-name override
effective_api(contract) ==
    LET endpoint0     == IF contract.api.k = "some"
                         THEN Some(contract.api.v.endpoint) ELSE NoneV
        health_check0 == IF contract.api.k = "some"
                         THEN Some(contract.api.v.health_check) ELSE NoneV
        caps          == overrides.capabilities
        has           == contract.name \in DOMAIN caps
        override      == caps[contract.name]
        endpoint      == IF has /\ override.endpoint.k = "some" /\ override.endpoint.v # <<>>
                         THEN Some(RStripSlash(override.endpoint.v)) ELSE endpoint0
        health_check  == IF has /\ override.health_check.k = "some"
                            /\ override.health_check.v # <<>>
                         THEN Some(override.health_check.v) ELSE health_check0
    IN  [endpoint |-> endpoint, health_check |-> health_check]

\* providers_by_type.setdefault(key, []).append(name)
setdefault_append(index, key, name) ==
    [t \in DOMAIN index \cup {key} |->
        IF t = key THEN Append(DictGet(index, key, <<>>), name) ELSE index[t]]

\* load, lines 71-74: the record's name under each provided type and under
\* the type's normalized form
RECURSIVE index_provides(_, _, _)
index_provides(index, provides, name) ==
    IF provides = <<>> THEN index
    ELSE LET provided   == Head(provides)
             literal    == setdefault_append(index, provided, name)
             normalized == setdefault_append(literal, normalize_type(provided), name)
         IN  index_provides(normalized, Tail(provides), name)

\* load, lines 49-77: one contract file; a file that raises is skipped
load_file(acc, contract_path, fs) ==
    LET contract == read_contract(Catalogue[fs[contract_path]])
    IN  IF ~contract.ok THEN acc
        ELSE LET api    == effective_api(contract)
                 record == CapabilityRecord(contract, contract_path,
                                            api.endpoint, api.health_check)
             IN  [records   |-> [n \in DOMAIN acc.records \cup {contract.name} |->
                                    IF n = contract.name THEN record ELSE acc.records[n]],
                  providers |-> index_provides(acc.providers, contract.provides,
                                               contract.name)]

RECURSIVE load_files(_, _, _)
load_files(acc, contract_files, fs) ==
    IF contract_files = <<>> THEN acc
    ELSE load_files(load_file(acc, Head(contract_files), fs), Tail(contract_files), fs)

\* mutant of sort_providers: the lists stay as the appends left them
sort_providers_as_appended(index) == index

\* load, lines 79-81: sorted(set(...)) of every provider list
sort_providers(index) == [t \in DOMAIN index |-> Sorted(Range(index[t]))]

\* mutant of build: a scan that finds no file keeps the previous maps
build_keep_when_empty(contract_files, fs) ==
    IF contract_files = <<>>
    THEN [records |-> records_by_name, providers |-> providers_by_type]
    ELSE LET acc == load_files([records |-> EmptyMap, providers |-> EmptyMap],
                               contract_files, fs)
         IN  [records |-> acc.records, providers |-> sort_providers(acc.providers)]

\* load, lines 41-81: the maps built from the contract files, found in the
\* order contract_files
build(contract_files, fs) ==
    LET acc == load_files([records |-> EmptyMap, providers |-> EmptyMap],
                          contract_files, fs)
    IN  [records |-> acc.records, providers |-> sort_providers(acc.providers)]

\* the orders in which rglob may yield the files present under the root
rglob(root, fs) ==
    LET present == IF root THEN {p \in Paths : fs[p] # 0} ELSE {}
    IN  {s \in UNION {[1..n -> present] : n \in 0..Cardinality(Paths)} :
            /\ Len(s) = Cardinality(present)
            /\ \A i, j \in 1..Len(s) : i # j => s[i] # s[j]}

\* the registry's three attributes
Registry ==
    [records |-> records_by_name, providers |-> providers_by_type,
     loaded_at_s |-> loaded_at_s]

\* load, lines 36-85, called at time now on the registry reg: what it
\* leaves in the three attributes, and whether it rebuilt them
load_results(reg, force, now) ==
    IF cache_is_fresh(reg.loaded_at_s, force, now)
    THEN {[rebuilt |-> FALSE, records |-> reg.records, providers |-> reg.providers,
           loaded_at_s |-> reg.loaded_at_s]}
    ELSE {[rebuilt |-> TRUE, records |-> build(contract_files, files).records,
           providers |-> build(contract_files, files).providers,
           loaded_at_s |-> now] : contract_files \in rglob(rootExists, files)}

\* get_by_type / resolve_provider, lines 93-96 and 105-108
merged_providers(index, service_type) ==
    LET providers  == DictGet(index, service_type, <<>>)
        normalized == normalize_type(service_type)
    IN  IF normalized # service_type
        THEN Sorted(Range(providers \o DictGet(index, normalized, <<>>)))
        ELSE providers

\* mutant of sorted_by_name: descending order
RECURSIVE sorted_by_name_desc(_)
sorted_by_name_desc(records) ==
    IF records = {} THEN <<>>
    ELSE LET m == CHOOSE r \in records :
                    \A q \in records \ {r} : ~StrLess(r.contract.name, q.contract.name)
         IN  <<m>> \o sorted_by_name_desc(records \ {m})

\* sorted(records, key=lambda r: r.contract.name)
RECURSIVE sorted_by_name(_)
sorted_by_name(records) ==
    IF records = {} THEN <<>>
    ELSE LET m == CHOOSE r \in records :
                    \A q \in records \ {r} : ~StrLess(q.contract.name, r.contract.name)
         IN  <<m>> \o sorted_by_name(records \ {m})

\* list_capabilities, line 89
list_records(records) == sorted_by_name({records[n] : n \in DOMAIN records})

\* list_capabilities, after its load(), on the current snapshot
list_capabilities == list_records(records_by_name)

\* get_by_type, lines 93-101, after its load(), on the current snapshot
get_by_type(service_type) ==
    [type |-> service_type, normalized_type |-> normalize_type(service_type),
     providers |-> merged_providers(providers_by_type, service_type)]

\* mutant of first_provider: the last provider of the list
last_provider(providers) == providers[Len(providers)]

\* resolve_provider, lines 109-113: the name of the record returned
first_provider(providers) == providers[1]

\* resolve_provider, lines 105-113
resolve(records, index, service_type) ==
    LET providers == merged_providers(index, service_type)
    IN  IF providers = <<>> THEN NoneV
        ELSE LET provider_name == first_provider(providers)
             IN  IF provider_name \in DOMAIN records
                 THEN Some(records[provider_name]) ELSE NoneV

\* resolve_provider, after its load(), on the current snapshot
resolve_provider(service_type) ==
    resolve(records_by_name, providers_by_type, service_type)

----------------------------------------------------------------------------
(* Registry calls and the environment *)

\* what the registry held when a call began: the build time, the names of
\* the records and the names of the records a health check had touched
Before ==
    [loaded_at_s |-> loaded_at_s,
     names       |-> DOMAIN records_by_name,
     checked     |-> {n \in DOMAIN records_by_name :
                         \/ records_by_name[n].status # "unknown"
                         \/ records_by_name[n].last_health_check_s.k = "some"
                         \/ records_by_name[n].last_error.k = "some"},
     same_files  |-> files = scanned]

NoBefore == [loaded_at_s |-> 0, names |-> {}, checked |-> {}, same_files |-> TRUE]

Event(op, force, rebuilt, before) ==
    [op |-> op, force |-> force, rebuilt |-> rebuilt, before |-> before]

EnvEvent == Event("env", FALSE, FALSE, NoBefore)

\* the call op has run load: what it was and what the load scanned
Loaded(res, op, force) ==
    /\ ev' = Event(op, force, res.rebuilt, Before)
    /\ scanned' = IF res.rebuilt THEN files ELSE scanned
    /\ scanClock' = IF res.rebuilt THEN clock ELSE scanClock

\* load, lines 83-85
SetRegistry(res) ==
    /\ records_by_name' = res.records
    /\ providers_by_type' = res.providers
    /\ loaded_at_s' = res.loaded_at_s

\* load(force), lines 36-85
load(force, op) ==
    \E res \in load_results(Registry, force, clock) :
        /\ SetRegistry(res)
        /\ Loaded(res, op, force)

Load(force) ==
    /\ load(force, "load")
    /\ UNCHANGED <<files, rootExists, clock, overrides, th, arg, ret,
                   constraints, strict_mode, hc, resp>>

\* list_capabilities(), get_by_type(t), resolve_provider(t): load(), then a
\* read of the snapshot
ListCapabilities ==
    /\ load(FALSE, "list_capabilities")
    /\ UNCHANGED <<files, rootExists, clock, overrides, th, arg, ret,
                   constraints, strict_mode, hc, resp>>

GetByType ==
    /\ load(FALSE, "get_by_type")
    /\ UNCHANGED <<files, rootExists, clock, overrides, th, arg, ret,
                   constraints, strict_mode, hc, resp>>

ResolveProvider ==
    /\ load(FALSE, "resolve_provider")
    /\ UNCHANGED <<files, rootExists, clock, overrides, th, arg, ret,
                   constraints, strict_mode, hc, resp>>

\* the body of an HTTP response, as far as the handlers of app.py fill it:
\* calls are the outbound calls the request made, in order; upstream is what
\* the calls of POST / came to, in the same order, and data the data of its
\* answer
Response(route, service_type, status_code, code, provider, available_types, calls, status) ==
    [route |-> route, type |-> service_type, status_code |-> status_code,
     code |-> code, provider |-> provider, available_types |-> available_types,
     calls |-> calls, status |-> status, upstream |-> <<>>, data |-> JNull]

NoResponse == Response("none", "", 0, "", NoneV, {}, <<>>, "")

\* the requests to GET /registry/{type}/health that may be in flight
Reqs == {"r1", "r2"}

\* a health request holds the record it resolved: attached tells whether that
\* record is still the one of the current snapshot
IdleCheck == [pc |-> "idle", name |-> <<>>, attached |-> FALSE, url |-> NoneV, code |-> ""]

\* the operator writes, replaces or deletes a contract file
WriteFile(p, d) ==
    /\ rootExists
    /\ files[p] # d
    /\ files' = [files EXCEPT ![p] = d]
    /\ ev' = EnvEvent
    /\ resp' = NoResponse
    /\ UNCHANGED <<rootExists, clock, overrides, loaded_at_s, records_by_name,
                   providers_by_type, scanned, scanClock, th, arg, ret,
                   constraints, strict_mode, hc>>

RemoveRoot ==
    /\ rootExists
    /\ rootExists' = FALSE
    /\ files' = NoFiles
    /\ ev' = EnvEvent
    /\ resp' = NoResponse
    /\ UNCHANGED <<clock, overrides, loaded_at_s, records_by_name,
                   providers_by_type, scanned, scanClock, th, arg, ret,
                   constraints, strict_mode, hc>>

CreateRoot ==
    /\ ~rootExists
    /\ rootExists' = TRUE
    /\ ev' = EnvEvent
    /\ resp' = NoResponse
    /\ UNCHANGED <<files, clock, overrides, loaded_at_s, records_by_name,
                   providers_by_type, scanned, scanClock, th, arg, ret,
                   constraints, strict_mode, hc>>

Tick ==
    /\ clock < MaxClock
    /\ clock' = clock + 1
    /\ ev' = EnvEvent
    /\ resp' = NoResponse
    /\ UNCHANGED <<files, rootExists, overrides, loaded_at_s, records_by_name,
                   providers_by_type, scanned, scanClock, th, arg, ret,
                   constraints, strict_mode, hc>>

\* the worker threads that run the synchronous handlers, and the event loop
Threads == {"w1", "w2"}

IdleThread ==
    [pc |-> "idle", service_type |-> "", now |-> 0,
     records |-> EmptyMap, providers_map |-> EmptyMap,
     providers |-> <<>>, result |-> NoneV]

\* no function has been called alone
NoCall == [f |-> "none"]

\* the program after construction
InitProgram ==
    /\ th = [w \in Threads |-> IdleThread]
    /\ hc = [r \in Reqs |-> IdleCheck]
    /\ resp = NoResponse
    /\ files = NoFiles
    /\ rootExists \in BOOLEAN
    /\ clock = 1
    /\ overrides \in OverridesChoices
    /\ loaded_at_s = 0
    /\ records_by_name = EmptyMap
    /\ providers_by_type = EmptyMap
    /\ ev = Event("init", FALSE, FALSE, NoBefore)
    /\ scanned = NoFiles
    /\ scanClock = 0

\* no constraints file at constraints_path, and STRICT_MODE left at its default
NoConstraintsFile == [exists |-> FALSE, text |-> "", data |-> JNull]

DefaultValidator ==
    /\ constraints = NoConstraintsFile
    /\ strict_mode = TRUE

Init ==
    /\ InitProgram
    /\ DefaultValidator
    /\ arg = NoCall
    /\ ret = NoCall

Next ==
    \/ \E force \in BOOLEAN : Load(force)
    \/ ListCapabilities
    \/ GetByType
    \/ ResolveProvider
    \/ \E p \in Paths, d \in 0..Len(Catalogue) : WriteFile(p, d)
    \/ RemoveRoot
    \/ CreateRoot
    \/ Tick

Spec == Init /\ [][Next]_vars

----------------------------------------------------------------------------
(* resolve_provider run by several threads: each read or write of an
   attribute of the registry is one step *)

RegistryUnchanged == UNCHANGED <<loaded_at_s, records_by_name, providers_by_type>>

ConcFrame ==
    UNCHANGED <<files, rootExists, clock, overrides, ev, scanned, scanClock, hc, resp,
                arg, ret, constraints, strict_mode>>

\* a handler calls registry.resolve_provider(service_type)
CallResolve(w, service_type) ==
    /\ th[w].pc = "idle"
    /\ th' = [th EXCEPT ![w] = [IdleThread EXCEPT !.pc = "load",
                                                  !.service_type = service_type]]
    /\ RegistryUnchanged /\ ConcFrame

\* load, lines 37-39
LoadEnter(w) ==
    /\ th[w].pc = "load"
    /\ th' = [th EXCEPT ![w].now = clock,
                        ![w].pc = IF cache_is_fresh(loaded_at_s, FALSE, clock)
                                  THEN "providers" ELSE "scan"]
    /\ RegistryUnchanged /\ ConcFrame

\* load, lines 41-81: the new maps, local to the call
LoadScan(w) ==
    /\ th[w].pc = "scan"
    /\ \E contract_files \in rglob(rootExists, files) :
          LET built == build(contract_files, files)
          IN  th' = [th EXCEPT ![w].records = built.records,
                              ![w].providers_map = built.providers,
                              ![w].pc = "set_records"]
    /\ RegistryUnchanged /\ ConcFrame

\* load, line 83
LoadSetRecords(w) ==
    /\ th[w].pc = "set_records"
    /\ records_by_name' = th[w].records
    /\ th' = [th EXCEPT ![w].pc = "set_providers"]
    /\ UNCHANGED <<loaded_at_s, providers_by_type>> /\ ConcFrame

\* load, line 84
LoadSetProviders(w) ==
    /\ th[w].pc = "set_providers"
    /\ providers_by_type' = th[w].providers_map
    /\ th' = [th EXCEPT ![w].pc = "set_loaded_at"]
    /\ UNCHANGED <<loaded_at_s, records_by_name>> /\ ConcFrame

\* load, line 85
LoadSetLoadedAt(w) ==
    /\ th[w].pc = "set_loaded_at"
    /\ loaded_at_s' = th[w].now
    /\ th' = [th EXCEPT ![w].pc = "providers"]
    /\ UNCHANGED <<records_by_name, providers_by_type>> /\ ConcFrame

\* resolve_provider, line 105
ReadProviders(w) ==
    /\ th[w].pc = "providers"
    /\ th' = [th EXCEPT ![w].providers =
                            DictGet(providers_by_type, th[w].service_type, <<>>),
                        ![w].pc = "normalized"]
    /\ RegistryUnchanged /\ ConcFrame

\* resolve_provider, lines 106-110
ReadNormalized(w) ==
    /\ th[w].pc = "normalized"
    /\ LET normalized == normalize_type(th[w].service_type)
           providers  == IF normalized # th[w].service_type
                         THEN Sorted(Range(th[w].providers
                                  \o DictGet(providers_by_type, normalized, <<>>)))
                         ELSE th[w].providers
       IN  th' = [th EXCEPT ![w].providers = providers,
                           ![w].pc = IF providers = <<>> THEN "done" ELSE "record"]
    /\ RegistryUnchanged /\ ConcFrame

\* resolve_provider, lines 112-113
ReadRecord(w) ==
    /\ th[w].pc = "record"
    /\ LET provider_name == first_provider(th[w].providers)
       IN  th' = [th EXCEPT ![w].result =
                               IF provider_name \in DOMAIN records_by_name
                               THEN Some(records_by_name[provider_name]) ELSE NoneV,
                           ![w].pc = "done"]
    /\ RegistryUnchanged /\ ConcFrame

\* the handler takes the result
Return(w) ==
    /\ th[w].pc = "done"
    /\ th' = [th EXCEPT ![w] = IdleThread]
    /\ RegistryUnchanged /\ ConcFrame

\* the types the threads ask for
ConcTypes == {"llm", "text-generation"}

\* the operator writes or deletes the contract file of "a"
ConcWriteFile(d) ==
    /\ files["p1"] # d
    /\ files' = [files EXCEPT !["p1"] = d]
    /\ RegistryUnchanged
    /\ UNCHANGED <<rootExists, clock, overrides, ev, scanned, scanClock, th, arg, ret,
                   constraints, strict_mode, hc, resp>>

ConcTick ==
    /\ clock < MaxClock
    /\ clock' = clock + 1
    /\ RegistryUnchanged
    /\ UNCHANGED <<files, rootExists, overrides, ev, scanned, scanClock, th, arg, ret,
                   constraints, strict_mode, hc, resp>>

InitConc ==
    /\ Init
    /\ rootExists

NextConc ==
    \/ \E w \in Threads, t \in ConcTypes : CallResolve(w, t)
    \/ \E w \in Threads : LoadEnter(w)
    \/ \E w \in Threads : LoadScan(w)
    \/ \E w \in Threads : LoadSetRecords(w)
    \/ \E w \in Threads : LoadSetProviders(w)
    \/ \E w \in Threads : LoadSetLoadedAt(w)
    \/ \E w \in Threads : ReadProviders(w)
    \/ \E w \in Threads : ReadNormalized(w)
    \/ \E w \in Threads : ReadRecord(w)
    \/ \E w \in Threads : Return(w)
    \/ \E d \in {0, 2} : ConcWriteFile(d)
    \/ ConcTick

SpecConc == InitConc /\ [][NextConc]_vars

----------------------------------------------------------------------------
(* The request router: router.py *)

\* what an outbound HTTP call comes to: a response with a status code, or
\* a transport failure (DNS, connection refused, timeout)
StatusCodes == {200, 399, 400, 503}

Answered(status_code) == [failed |-> FALSE, status_code |-> status_code]

TransportFailure == [failed |-> TRUE, status_code |-> 0]

Outcomes == {TransportFailure} \cup {Answered(status_code) : status_code \in StatusCodes}

\* no outbound call was made
NoOutcome == [failed |-> FALSE, status_code |-> 0]

\* _safe_text, line 140: the number of characters kept of a response text
SafeTextChars == 4096

\* the body of an upstream response: JSON, or a text that is no JSON, of
\* which the model keeps the number of characters
JsonBody(value) == [k |-> "json", v |-> value]

TextBody(chars) == [k |-> "text", chars |-> chars]

\* the proxied call was answered with this status and body
Replied(status_code, body) ==
    [failed |-> FALSE, status_code |-> status_code, body |-> body]

\* what the proxied call may come to: JSON and text bodies under statuses on
\* both sides of 400, a text of exactly the kept length and one longer
ProxiedOutcomes ==
    {TransportFailure,
     Replied(200, JsonBody(JStr("ok"))),
     Replied(399, TextBody(4096)),
     Replied(400, TextBody(4097)),
     Replied(503, JsonBody(JStr("busy")))}

\* mutant of safe_text: the text is kept whole
safe_text_whole(body) == [chars |-> body.chars]

\* _safe_text, lines 138-142: response.text[:4096]
safe_text(body) == [chars |-> Min(body.chars, SafeTextChars)]

\* execute, lines 129-133: r.json(), or {"text": _safe_text(r)}
response_data(body) ==
    IF body.k = "json" THEN body.v ELSE [k |-> "map", text |-> safe_text(body)]

\* RouteResult, lines 19-24 and 135
RouteResult(provider, status_code, data) ==
    [provider |-> provider, status_code |-> status_code, data |-> data]

\* what a call that raised has for a result
NoResult == RouteResult(<<>>, 0, JNull)

\* an outbound call: client.get(url) sends no body
Call(method, url, body) == [method |-> method, url |-> url, body |-> body]

\* RoutingError(code, message): the message, with the capability name that
\* the NO_API message interpolates
RoutingError(code, name) ==
    [code |-> code,
     message |-> CASE code = "NO_API" -> [text |-> "Capability '{name}' has no api.endpoint",
                                          name |-> name]
                   [] code = "UNREACHABLE" -> [text |-> "Capability health check failed",
                                               name |-> <<>>]
                   [] code = "UNHEALTHY" -> [text |-> "Capability returned unhealthy status",
                                             name |-> <<>>]
                   [] OTHER -> [text |-> code, name |-> <<>>]]

\* check_health, lines 32-35: the URL of the health check, None when the
\* record has no endpoint or no health path
health_url(record) ==
    IF record.api_endpoint.k = "none" \/ record.health_check.k = "none"
    THEN NoneV
    ELSE Some(record.api_endpoint.v \o record.health_check.v)

\* mutant of health_code: the status of the response is not looked at
health_code_any_status(outcome) == IF outcome.failed THEN "UNREACHABLE" ELSE ""

\* check_health, lines 37-47: the code raised after the GET, "" when the
\* call returns normally
health_code(outcome) ==
    IF outcome.failed THEN "UNREACHABLE"
    ELSE IF outcome.status_code >= 400 THEN "UNHEALTHY"
    ELSE ""

\* check_health(record): the code raised, the outbound calls made and what
\* they came to
check_health(record) ==
    IF health_url(record).k = "none"
    THEN {[code |-> "NO_API", outcome |-> NoOutcome, calls |-> <<>>]}
    ELSE {[code |-> health_code(outcome), outcome |-> outcome,
           calls |-> <<Call("GET", health_url(record).v, JMissing)>>] :
                outcome \in Outcomes}

\* a payload that is a mapping, JMissing for a key it does not have; the
\* items of params are pairs <<key, value>>
Payload(endpoint, params, path, json) ==
    [k |-> "map", endpoint |-> endpoint, params |-> params, path |-> path,
     json |-> json]

Params(items) == [k |-> "map", items |-> items]

\* the payloads of a request to POST /: none, or a mapping with the legacy
\* key "path"
PathPayload == Payload(JMissing, JMissing, JStr(<<"/q">>), JMissing)

Payloads == {JNull, PathPayload}

\* the details of a RoutingError that execute raises
Details(missing, path_template, params, available_endpoints) ==
    [missing |-> missing, path_template |-> path_template, params |-> params,
     available_endpoints |-> available_endpoints]

NoDetails == Details("", <<>>, JNull, <<>>)

\* the place of a request: the error raised instead, or method and path
RouteError(code, message, details) ==
    [code |-> code, message |-> message, details |-> details,
     method |-> "", path |-> <<>>]

Route(method, path) ==
    [code |-> "", message |-> "", details |-> NoDetails, method |-> method,
     path |-> path]

\* the {name} placeholders that the path templates use, and their keys
PlaceholderKey == [token \in {"{id}", "{col}"} |-> IF token = "{id}" THEN "id" ELSE "col"]

ParamKeys(params) == {item[1] : item \in params.items}

ParamValue(params, key) == (CHOOSE item \in params.items : item[1] = key)[2]

\* path.format(**params): the path with its placeholders replaced, or the
\* key of the KeyError for the first placeholder that params does not have
RECURSIVE format(_, _)
format(path, params) ==
    IF path = <<>> THEN [missing |-> "", path |-> <<>>]
    ELSE IF Head(path) \in DOMAIN PlaceholderKey
            /\ PlaceholderKey[Head(path)] \notin ParamKeys(params)
    THEN [missing |-> PlaceholderKey[Head(path)], path |-> <<>>]
    ELSE LET rest == format(Tail(path), params)
             head == IF Head(path) \in DOMAIN PlaceholderKey
                     THEN ParamValue(params, PlaceholderKey[Head(path)])
                     ELSE Head(path)
         IN  IF rest.missing # "" THEN rest
             ELSE [missing |-> "", path |-> <<head>> \o rest.path]

\* execute, lines 62-90: method and path of the contract endpoint that
\* payload.endpoint names
named_path(record, payload) ==
    LET endpoint_name == IF Truthy(payload.endpoint, <<>>) THEN payload.endpoint.v
                         ELSE <<>>
        endpoints     == record.contract.endpoints
        params        == Get(payload.params)
    IN  IF endpoint_name = <<>>
        THEN RouteError("INVALID", "payload.endpoint must be a non-empty string", NoDetails)
        ELSE IF endpoint_name \notin DOMAIN endpoints
        THEN RouteError("INVALID", "Unknown endpoint",
                        Details("", <<>>, JNull, Sorted(DOMAIN endpoints)))
        ELSE IF params.k \notin {"null", "map"}
        THEN RouteError("INVALID", "payload.params must be an object", NoDetails)
        ELSE LET endpoint_spec == endpoints[endpoint_name]
             IN  IF params.k = "map" /\ params.items # {}
                 THEN LET formatted == format(endpoint_spec.path, params)
                      IN  IF formatted.missing # ""
                          THEN RouteError("INVALID", "Missing path param for endpoint",
                                          Details(formatted.missing, endpoint_spec.path,
                                                  params, <<>>))
                          ELSE Route(endpoint_spec.method, formatted.path)
                 ELSE Route(endpoint_spec.method, endpoint_spec.path)

\* mutant of legacy_path: a type outside the table is sent to payload.path
legacy_path_any_type(service_type, payload) ==
    IF service_type = "text-generation"
    THEN Route("POST", <<"/api/generate">>)
    ELSE IF payload.k # "map" \/ payload.path.k = "missing"
    THEN IF service_type \in {"vector-search", "text-embeddings", "embedding"}
         THEN RouteError("INVALID", "Retrieval requests must provide payload.endpoint",
                         NoDetails)
         ELSE RouteError("UNSUPPORTED", "Unsupported type", NoDetails)
    ELSE Route("POST", IF payload.path.k = "null" THEN <<"None">> ELSE payload.path.v)

\* execute, lines 92-113: the path inferred from the type when the payload
\* names no contract endpoint; str(None) is "None"
legacy_path(service_type, payload) ==
    IF service_type = "text-generation"
    THEN Route("POST", <<"/api/generate">>)
    ELSE IF service_type \in {"vector-search", "text-embeddings", "embedding"}
    THEN IF payload.k # "map" \/ payload.path.k = "missing"
         THEN RouteError("INVALID", "Retrieval requests must provide payload.endpoint",
                         NoDetails)
         ELSE Route("POST", IF payload.path.k = "null" THEN <<"None">>
                            ELSE payload.path.v)
    ELSE RouteError("UNSUPPORTED", "Unsupported type", NoDetails)

\* mutant of json_body: a payload with a path and no json sends the request
json_body_request_with_path(payload) ==
    IF payload.k = "map" /\ payload.json.k # "missing" THEN payload.json
    ELSE [k |-> "request", payload |-> payload]

\* execute, lines 115-125: the JSON body sent; the request without its type
\* is {"payload": payload}
json_body(payload) ==
    IF payload.k = "map" /\ payload.json.k # "missing" THEN payload.json
    ELSE IF payload.k = "map" /\ payload.path.k # "missing" THEN Get(payload.json)
    ELSE [k |-> "request", payload |-> payload]

\* a RoutingError raised by execute before any call
Raise(code, message, details) ==
    [code |-> code, message |-> message, details |-> details, outcome |-> NoOutcome,
     calls |-> <<>>, result |-> NoResult]

\* mutant of sent: a call whose transport failed is sent a second time
sent_again_on_failure(record, call, outcome) ==
    [code |-> "", message |-> "", details |-> NoDetails, outcome |-> outcome,
     calls |-> IF outcome.failed THEN <<call, call>> ELSE <<call>>,
     result |-> IF outcome.failed THEN NoResult
                ELSE RouteResult(record.contract.name, outcome.status_code,
                                 response_data(outcome.body))]

\* execute, lines 127-135: the one outbound call and what it came to; a
\* transport failure leaves execute as the exception of the HTTP client,
\* which is no RoutingError and has no code
sent(record, call, outcome) ==
    [code |-> "", message |-> "", details |-> NoDetails, outcome |-> outcome,
     calls |-> <<call>>,
     result |-> IF outcome.failed THEN NoResult
                ELSE RouteResult(record.contract.name, outcome.status_code,
                                 response_data(outcome.body))]

\* mutant of names_endpoint: an endpoint that is null or empty is no endpoint
names_endpoint_when_truthy(payload) ==
    payload.k = "map" /\ Truthy(payload.endpoint, <<>>)

\* execute, line 62: isinstance(payload, Mapping) and "endpoint" in payload
names_endpoint(payload) ==
    payload.k = "map" /\ payload.endpoint.k # "missing"

\* RequestRouter.execute(record, {"type": service_type, "payload": payload}):
\* the error raised, or the one outbound call and what it came to
router_execute(record, service_type, payload) ==
    IF record.api_endpoint.k = "none"
    THEN {Raise("NO_API", RoutingError("NO_API", record.contract.name).message.text,
                NoDetails)}
    ELSE IF service_type = ""
    THEN {Raise("INVALID", "Missing 'type' field", NoDetails)}
    ELSE LET route == IF names_endpoint(payload)
                      THEN named_path(record, payload)
                      ELSE legacy_path(service_type, payload)
         IN  IF route.code # ""
             THEN {Raise(route.code, route.message, route.details)}
             ELSE {sent(record,
                        Call(route.method, record.api_endpoint.v \o route.path,
                             json_body(payload)),
                        outcome) : outcome \in ProxiedOutcomes}

----------------------------------------------------------------------------
(* POST /: app.py, execute *)

\* execute, line 179
http_status(code) == IF code \in {"UNREACHABLE", "UNHEALTHY"} THEN 503 ELSE 400

\* execute, line 160: the set that sorted() lists
available_types(caps) ==
    UNION {Range(caps[i].contract.provides) : i \in 1..Len(caps)}

\* execute, lines 174-189, once the health check returned: the response for
\* what router.execute came to; a transport failure of the proxied call is
\* no RoutingError and leaves the handler as an unhandled exception
proxied_response(record, service_type, health, routed) ==
    LET calls    == health.calls \o routed.calls
        upstream == <<health.outcome>>
                        \o (IF routed.calls = <<>> THEN <<>> ELSE <<routed.outcome>>)
    IN  IF routed.code # ""
        THEN [Response("execute", service_type, http_status(routed.code), routed.code,
                       NoneV, {}, calls, "error") EXCEPT !.upstream = upstream]
        ELSE IF routed.outcome.failed
        THEN [Response("execute", service_type, 500, "", NoneV, {}, calls, "")
                EXCEPT !.upstream = upstream]
        ELSE [Response("execute", service_type, 200, "", Some(routed.result.provider), {},
                       calls,
                       IF routed.result.status_code < 400 THEN "success" ELSE "error")
                EXCEPT !.upstream = upstream, !.data = routed.result.data]

\* mutant of execute_responses: the proxied call is made whatever the health
\* check came to
execute_responses_health_ignored(record, service_type, payload) ==
    UNION {{proxied_response(record, service_type, health, routed) :
               routed \in router_execute(record, service_type, payload)} :
                health \in check_health(record)}

\* execute, lines 172-189: the responses for a resolved record
execute_responses(record, service_type, payload) ==
    UNION {IF health.code # ""
           THEN {[Response("execute", service_type, http_status(health.code),
                           health.code, NoneV, {}, health.calls, "error")
                    EXCEPT !.upstream = IF health.calls = <<>> THEN <<>>
                                        ELSE <<health.outcome>>]}
           ELSE {proxied_response(record, service_type, health, routed) :
                    routed \in router_execute(record, service_type, payload)} :
                health \in check_health(record)}

\* POST / with body {"type": service_type, "payload": payload}
Execute(service_type, payload) ==
    /\ \E res \in load_results(Registry, FALSE, clock) :
          LET record == resolve(res.records, res.providers, service_type)
          IN  IF record.k = "none"
              THEN \E again \in load_results(
                            [records |-> res.records, providers |-> res.providers,
                             loaded_at_s |-> res.loaded_at_s], FALSE, clock) :
                      /\ SetRegistry(again)
                      /\ Loaded([rebuilt |-> res.rebuilt \/ again.rebuilt], "execute", FALSE)
                      /\ resp' = Response("execute", service_type, 404, "NOT_FOUND", NoneV,
                                          available_types(list_records(again.records)),
                                          <<>>, "error")
              ELSE /\ SetRegistry(res)
                   /\ Loaded(res, "execute", FALSE)
                   /\ \E response \in execute_responses(record.v, service_type, payload) :
                         resp' = response
    /\ UNCHANGED <<files, rootExists, clock, overrides, th, arg, ret, constraints, strict_mode, hc>>

\* the contract files written while requests are executed
ExecDocs == 0..3

InitApp ==
    /\ Init
    /\ rootExists

NextExec ==
    \/ \E service_type \in Types, payload \in Payloads : Execute(service_type, payload)
    \/ \E p \in Paths, d \in ExecDocs : WriteFile(p, d)
    \/ Tick

SpecExec == InitApp /\ [][NextExec]_vars

----------------------------------------------------------------------------
(* GET /registry/{service_type}/health: app.py, registry_type_health.  The
   handler is a coroutine of the event loop: it runs alone from its start to
   its await and from its resumption to its end, while the synchronous
   handlers (GET /registry) run on worker threads between any two steps. *)

\* a rebuild replaces every record of the snapshot: the records that the
\* requests in flight hold are no longer part of it
Detached(checks) == [r \in Reqs |-> [checks[r] EXCEPT !.attached = FALSE]]

\* no other coroutine is running: each is idle or suspended at its await
LoopFree(r) == \A q \in Reqs \ {r} : hc[q].pc \in {"idle", "await"}

HealthEvent == Event("health", FALSE, FALSE, NoBefore)

\* the write of one field of the record a request holds
SetField(r, field, value) ==
    records_by_name' =
        IF hc[r].attached
        THEN [records_by_name EXCEPT ![hc[r].name][field] = value]
        ELSE records_by_name

\* registry_type_health, lines 69-80
HealthResolve(r, service_type) ==
    /\ hc[r].pc = "idle"
    /\ LoopFree(r)
    /\ \E res \in load_results(Registry, FALSE, clock) :
          LET record == resolve(res.records, res.providers, service_type)
              others == IF res.rebuilt THEN Detached(hc) ELSE hc
          IN  /\ SetRegistry(res)
              /\ Loaded(res, "health", FALSE)
              /\ hc' = [others EXCEPT ![r] =
                            IF record.k = "none" THEN IdleCheck
                            ELSE [pc |-> "resolved", name |-> record.v.contract.name,
                                  attached |-> TRUE, url |-> health_url(record.v),
                                  code |-> ""]]
              /\ resp' = IF record.k = "none"
                         THEN Response("health", service_type, 404, "NOT_FOUND", NoneV,
                                       {}, <<>>, "error")
                         ELSE NoResponse
    /\ UNCHANGED <<files, rootExists, clock, overrides, th, arg, ret, constraints, strict_mode>>

\* registry_type_health, line 82, then check_health up to its raise of
\* NO_API or its await of the GET
HealthStamp(r) ==
    /\ hc[r].pc = "resolved"
    /\ SetField(r, "last_health_check_s", Some(clock))
    /\ hc' = [hc EXCEPT ![r].pc = IF hc[r].url.k = "none" THEN "raised" ELSE "await"]
    /\ ev' = HealthEvent
    /\ resp' = NoResponse
    /\ UNCHANGED <<files, rootExists, clock, overrides, loaded_at_s, providers_by_type,
                   scanned, scanClock, th, arg, ret, constraints, strict_mode>>

\* registry_type_health, lines 85 and 89: the status, from the code that
\* check_health raised
SetStatus(r, code) ==
    /\ SetField(r, "status", IF code = "" THEN "healthy" ELSE "unhealthy")
    /\ hc' = [hc EXCEPT ![r].pc = "status_set", ![r].code = code]
    /\ ev' = HealthEvent
    /\ resp' = NoResponse
    /\ UNCHANGED <<files, rootExists, clock, overrides, loaded_at_s, providers_by_type,
                   scanned, scanClock, th, arg, ret, constraints, strict_mode>>

\* check_health raised NO_API without an outbound call
HealthNoApi(r) ==
    /\ hc[r].pc = "raised"
    /\ SetStatus(r, "NO_API")

\* the GET of check_health came to outcome and the handler resumes
HealthResult(r, outcome) ==
    /\ hc[r].pc = "await"
    /\ LoopFree(r)
    /\ SetStatus(r, health_code(outcome))

\* registry_type_health, lines 86-87 and 90-94
HealthReturn(r) ==
    /\ hc[r].pc = "status_set"
    /\ SetField(r, "last_error",
                IF hc[r].code = "" THEN NoneV
                ELSE Some(RoutingError(hc[r].code, hc[r].name).message))
    /\ resp' = LET calls == IF hc[r].url.k = "none" THEN <<>>
                            ELSE <<Call("GET", hc[r].url.v, JMissing)>>
               IN  IF hc[r].code = ""
                   THEN Response("health", "", 200, "", Some(hc[r].name), {}, calls,
                                 "healthy")
                   ELSE Response("health", "", 503, hc[r].code, Some(hc[r].name), {},
                                 calls, "unhealthy")
    /\ hc' = [hc EXCEPT ![r] = IdleCheck]
    /\ ev' = HealthEvent
    /\ UNCHANGED <<files, rootExists, clock, overrides, loaded_at_s, providers_by_type,
                   scanned, scanClock, th, arg, ret, constraints, strict_mode>>

\* a call of the registry from a worker thread while health requests are in
\* flight: list_capabilities() of GET /registry, or load(force=True)
RegistryCall(force, op) ==
    /\ \E res \in load_results(Registry, force, clock) :
          /\ SetRegistry(res)
          /\ Loaded(res, op, force)
          /\ hc' = IF res.rebuilt THEN Detached(hc) ELSE hc
    /\ resp' = NoResponse
    /\ UNCHANGED <<files, rootExists, clock, overrides, th, arg, ret, constraints, strict_mode>>

ListRegistry == RegistryCall(FALSE, "list_capabilities")

Reload == RegistryCall(TRUE, "load")

\* the contract file written while health requests run: it names "a", with
\* a health URL or without an api block
HealthDocs == {0, 2, 3}

HealthPaths == {"p1"}

NextHealth ==
    \/ \E r \in Reqs, service_type \in Types : HealthResolve(r, service_type)
    \/ \E r \in Reqs : HealthStamp(r)
    \/ \E r \in Reqs : HealthNoApi(r)
    \/ \E r \in Reqs, outcome \in Outcomes : HealthResult(r, outcome)
    \/ \E r \in Reqs : HealthReturn(r)
    \/ ListRegistry
    \/ Reload
    \/ \E p \in HealthPaths, d \in HealthDocs : WriteFile(p, d)
    \/ Tick

SpecHealth == InitApp /\ [][NextHealth]_vars

----------------------------------------------------------------------------
(* parse_contract called alone on a contract document *)

\* one entry of an endpoints block
EndpointSpec(method, path) == [k |-> "map", method |-> method, path |-> path]

\* endpoint names, as character codes: "g", "m", "n", "p", "s", "u"
EndpointsBlock ==
    [k |-> "map",
     items |-> (<<103>> :> EndpointSpec(JStr("get"), JStr(<<"/items/", "{id}">>)))
            @@ (<<109>> :> EndpointSpec(JMissing, JStr(<<"/c/", "{col}", "/i/", "{id}">>)))
            @@ (<<110>> :> EndpointSpec(JNull, JNum(0, <<"0">>)))
            @@ (<<112>> :> EndpointSpec(JStr("post"), JMissing))
            @@ (<<115>> :> JStr(<<"/s">>))
            @@ (<<117>> :> EndpointSpec(JStr("Put"), JStr(<<>>)))]

\* the documents parse_contract is given
ParseDocs ==
    {ContractDoc(name, version, JMissing, provides, JMissing, endpoints, JMissing) :
        name \in {JMissing, JNull, JStr(<<>>), JStr(NameA), JNum(0, <<48>>)},
        version \in {JMissing, JStr(""), JStr("1.0"), JNum(2, "2")},
        provides \in {JMissing, JNull, JStr(""), JStr("chat"), JNum(0, "0"),
                      JNum(7, "7"), JList(<<>>), JList(<<JStr(""), JNull>>),
                      JList(<<JStr(""), JStr("chat")>>), JList(<<JNum(0, "0")>>)},
        endpoints \in {JMissing, JList(<<>>), EndpointsBlock}}

InitParse ==
    /\ InitProgram
    /\ rootExists
    /\ overrides.provides_aliases = EmptyMap
    /\ DefaultValidator
    /\ arg \in {[f |-> "parse_contract", data |-> data] : data \in ParseDocs}
    /\ ret = NoCall

\* what every call of a function alone leaves as it is
Elsewhere ==
    UNCHANGED <<files, rootExists, clock, overrides, loaded_at_s, records_by_name,
                providers_by_type, ev, scanned, scanClock, th, hc, resp, arg,
                constraints, strict_mode>>

ParseContract ==
    /\ arg.f = "parse_contract"
    /\ ret = NoCall
    /\ ret' = [f |-> "parse_contract", value |-> parse_contract(arg.data)]
    /\ Elsewhere

NextParse == ParseContract

SpecParse == InitParse /\ [][NextParse]_vars

----------------------------------------------------------------------------
(* RequestRouter.check_health and RequestRouter.execute called alone *)

\* a contract with the endpoints "g", "m" and "n" of EndpointsBlock
RouterContract ==
    parse_contract(ContractDoc(JStr(NameA), JStr("1.0"), JMissing,
                               JStr("text-generation"), JMissing, EndpointsBlock,
                               JMissing))

\* its records, with and without an effective endpoint and health path
RouterRecords ==
    {CapabilityRecord(RouterContract, "p1", api_endpoint, health_check) :
        api_endpoint \in {NoneV, Some(<<"http://a">>)},
        health_check \in {NoneV, Some(<<"/ping">>)}}

RouterTypes ==
    {"", "text-generation", "vector-search", "text-embeddings", "embedding", "chat"}

RouterPayloads ==
    {JNull} \cup
    {Payload(endpoint, params, path, json) :
        endpoint \in {JMissing, JNull, JStr(<<103>>), JStr(<<109>>), JStr(<<122>>)},
        params \in {JMissing, JNull, JStr("id"), Params({}), Params({<<"id", "42">>}),
                    Params({<<"id", "42">>, <<"col", "c">>})},
        path \in {JMissing, JNull, JStr(<<"/q">>)},
        json \in {JMissing, JStr("body")}}

InitRouter ==
    /\ InitProgram
    /\ rootExists
    /\ overrides.provides_aliases = EmptyMap
    /\ DefaultValidator
    /\ arg \in {[f |-> "execute", record |-> record, type |-> service_type,
                 payload |-> payload] :
                    record \in RouterRecords, service_type \in RouterTypes,
                    payload \in RouterPayloads}
               \cup {[f |-> "check_health", record |-> record, type |-> "",
                      payload |-> JNull] : record \in RouterRecords}
    /\ ret = NoCall

CheckHealth ==
    /\ arg.f = "check_health"
    /\ ret = NoCall
    /\ \E result \in check_health(arg.record) :
          ret' = [f |-> "check_health", value |-> result]
    /\ Elsewhere

RouterExecute ==
    /\ arg.f = "execute"
    /\ ret = NoCall
    /\ \E result \in router_execute(arg.record, arg.type, arg.payload) :
          ret' = [f |-> "execute", value |-> result]
    /\ Elsewhere

NextRouter ==
    \/ CheckHealth
    \/ RouterExecute

SpecRouter == InitRouter /\ [][NextRouter]_vars

----------------------------------------------------------------------------
(* The resource validator: validator.py *)

\* line 51: the RAM headroom, in MB, below which strict mode warns
LowHeadroomMb == 1024

LowHeadroomWarning == "Low RAM headroom (<1024MB)."

\* the file at constraints_path: whether it exists, whether its text is
\* JSON, and the value it holds
ConstraintsFile(exists, text, data) == [exists |-> exists, text |-> text, data |-> data]

\* a memory or storage block of the constraints document
Capacity(available_mb, total_mb) ==
    [k |-> "map", available_mb |-> available_mb, total_mb |-> total_mb]

\* a constraints document that is an object
Constraints(memory, storage) == [k |-> "map", memory |-> memory, storage |-> storage]

\* a call that returned value, and a call that raised
Returned(value) == [raised |-> "", value |-> value]

Raises(exception) == [raised |-> exception, value |-> JNull]

\* load_constraints, lines 22-25
load_constraints(file) ==
    IF ~file.exists THEN Returned(Constraints(JMissing, JMissing))
    ELSE IF file.text # "json" THEN Raises("JSONDecodeError")
    ELSE Returned(file.data)

\* lines 29-30: constraints.get(key, {}) if isinstance(constraints, dict) else {}
block(document, key) ==
    IF document.k # "map" THEN Capacity(JMissing, JMissing)
    ELSE IF document[key].k = "missing" THEN Capacity(JMissing, JMissing)
    ELSE document[key]

\* int(x or 0): null, 0 and "" are falsy; a text that is no number raises
int_or_zero(x) ==
    CASE x.k \in {"missing", "null"} -> Returned(0)
      [] x.k = "num" -> Returned(x.n)
      [] x.k = "str" -> IF x.v = "" THEN Returned(0) ELSE Raises("ValueError")
      [] OTHER -> Raises("TypeError")

\* lines 32-33: int(memory.get("available_mb", memory.get("total_mb", 0)) or 0);
\* a block that is no mapping has no get
available(capacity) ==
    IF capacity.k # "map" THEN Raises("AttributeError")
    ELSE IF capacity.available_mb.k # "missing" THEN int_or_zero(capacity.available_mb)
    ELSE int_or_zero(capacity.total_mb)

\* lines 35-41: the sum of int(resources.get(key, 0) or 0) over the records
RECURSIVE required(_, _)
required(capabilities, key) ==
    IF capabilities = <<>> THEN Returned(0)
    ELSE LET first == int_or_zero(Head(capabilities).contract.resources[key])
             rest  == required(Tail(capabilities), key)
         IN  IF first.raised # "" THEN first
             ELSE IF rest.raised # "" THEN rest
             ELSE Returned(first.value + rest.value)

\* lines 43-44
fits_always(available_mb, required_mb) == TRUE

fits(available_mb, required_mb) == available_mb = 0 \/ required_mb <= available_mb

\* line 46
headroom(available_mb, required_mb) ==
    IF available_mb # 0 THEN Some(available_mb - required_mb) ELSE NoneV

\* mutant of warnings: a headroom of exactly 1024 MB is low too
warnings_at_threshold(compatible, strict, headroom_ram_mb) ==
    IF compatible /\ strict /\ headroom_ram_mb.k = "some" /\ headroom_ram_mb.v <= LowHeadroomMb
    THEN <<LowHeadroomWarning>> ELSE <<>>

\* lines 50-52
warnings(compatible, strict, headroom_ram_mb) ==
    IF compatible /\ strict /\ headroom_ram_mb.k = "some" /\ headroom_ram_mb.v < LowHeadroomMb
    THEN <<LowHeadroomWarning>> ELSE <<>>

\* x or None, lines 59 and 65
or_none(x) == IF x = 0 THEN NoneV ELSE Some(x)

\* ValidationResult, lines 11-14 and 54-70
ValidationResult(compatible, ram, storage, warning_list) ==
    [compatible |-> compatible,
     details |-> [ram |-> ram, storage |-> storage, warnings |-> warning_list]]

\* validate_stack, lines 27-70, of a validator over the constraints file
\* and in the mode strict
validate_stack(capabilities, file, strict) ==
    LET loaded == load_constraints(file)
    IN  IF loaded.raised # "" THEN loaded
        ELSE
        LET available_ram_mb == available(block(loaded.value, "memory"))
            available_storage_mb == available(block(loaded.value, "storage"))
            required_ram_mb == required(capabilities, "ram_mb")
            required_storage_mb == required(capabilities, "storage_mb")
        IN  IF available_ram_mb.raised # "" THEN available_ram_mb
            ELSE IF available_storage_mb.raised # "" THEN available_storage_mb
            ELSE IF required_ram_mb.raised # "" THEN required_ram_mb
            ELSE IF required_storage_mb.raised # "" THEN required_storage_mb
            ELSE
            LET ram_ok == fits(available_ram_mb.value, required_ram_mb.value)
                storage_ok == fits(available_storage_mb.value, required_storage_mb.value)
                headroom_ram_mb == headroom(available_ram_mb.value, required_ram_mb.value)
                compatible == ram_ok /\ storage_ok
                warning_list == warnings(compatible, strict, headroom_ram_mb)
            IN  Returned(ValidationResult(
                    IF ~strict THEN compatible ELSE compatible /\ warning_list = <<>>,
                    [required_mb |-> required_ram_mb.value,
                     available_mb |-> or_none(available_ram_mb.value),
                     ok |-> ram_ok,
                     headroom_mb |-> headroom_ram_mb],
                    [required_mb |-> required_storage_mb.value,
                     available_mb |-> or_none(available_storage_mb.value),
                     ok |-> storage_ok],
                    warning_list))

----------------------------------------------------------------------------
(* load_constraints and validate_stack called alone, on a validator of
   either mode over each constraints file *)

\* the record of a capability that declares these resources
ValidatorRecord(ram_mb, storage_mb) ==
    CapabilityRecord(
        parse_contract(ContractDoc(JStr(NameA), JStr("1.0"), JMissing, JStr("chat"),
                                   JMissing, JMissing, Resources(ram_mb, storage_mb))),
        "p1", NoneV, NoneV)

ValidatorRecords ==
    {ValidatorRecord(ram_mb, storage_mb) :
        ram_mb \in {JMissing, JNull, JNum(2000, "2000"), JNum(6000, "6000"),
                    JNum(7200, "7200")},
        storage_mb \in {JMissing, JNum(500, "500")}}

\* the longest list of records given to validate_stack
MaxStack == 2

ValidatorStacks ==
    UNION {[1..n -> ValidatorRecords] : n \in 0..MaxStack}

MemoryBlocks ==
    {JMissing, JNull, JStr("8GB")}
        \cup {Capacity(available_mb, total_mb) :
                available_mb \in {JMissing, JNull, JNum(0, "0"), JNum(6000, "6000"),
                                  JNum(8000, "8000"), JNum(8224, "8224"),
                                  JNum(12000, "12000"), JStr("8GB")},
                total_mb \in {JMissing, JNum(12000, "12000")}}

StorageBlocks ==
    {JMissing, JList(<<>>), Capacity(JNum(400, "400"), JMissing),
     Capacity(JMissing, JNum(1000, "1000"))}

ValidatorFiles ==
    {NoConstraintsFile, ConstraintsFile(TRUE, "garbage", JNull)}
        \cup {ConstraintsFile(TRUE, "json", data) :
                data \in {JNull, JList(<<>>), JStr("8GB")}
                         \cup {Constraints(memory, storage) :
                                 memory \in MemoryBlocks, storage \in StorageBlocks}}

InitValidator ==
    /\ InitProgram
    /\ rootExists
    /\ overrides.provides_aliases = EmptyMap
    /\ constraints \in ValidatorFiles
    /\ strict_mode \in BOOLEAN
    /\ arg \in {[f |-> "load_constraints", capabilities |-> <<>>]}
               \cup {[f |-> "validate_stack", capabilities |-> capabilities] :
                        capabilities \in ValidatorStacks}
    /\ ret = NoCall

LoadConstraints ==
    /\ arg.f = "load_constraints"
    /\ ret = NoCall
    /\ LET result == load_constraints(constraints)
       IN  ret' = [f |-> "load_constraints", raised |-> result.raised,
                   value |-> result.value]
    /\ Elsewhere

ValidateStack ==
    /\ arg.f = "validate_stack"
    /\ ret = NoCall
    /\ LET result == validate_stack(arg.capabilities, constraints, strict_mode)
       IN  ret' = [f |-> "validate_stack", raised |-> result.raised,
                   value |-> result.value]
    /\ Elsewhere

NextValidator ==
    \/ LoadConstraints
    \/ ValidateStack

SpecValidator == InitValidator /\ [][NextValidator]_vars

----------------------------------------------------------------------------
(* POST /validate/stack: app.py, validate_stack.  The handler is synchronous
   and is modelled as one step: it resolves each requested type in turn,
   every resolve_provider calling load, and gives the resolved records to
   the validator. *)

\* the request body: its keys types and capabilities
Body(types, capabilities) == [k |-> "map", types |-> types, capabilities |-> capabilities]

\* an item {"type": service_type} of body.capabilities
Item(service_type) == [k |-> "map", type |-> service_type]

\* lines 135-137: the types of the items that are mappings with a type key
RECURSIVE item_types(_)
item_types(items) ==
    IF items = <<>> THEN <<>>
    ELSE LET item == Head(items)
         IN  (IF item.k = "map" /\ item.type.k # "missing" THEN <<item.type.v>> ELSE <<>>)
                \o item_types(Tail(items))

\* lines 131-137: the requested types
requested_types(body) ==
    IF body.types.k = "list" THEN [i \in 1..Len(body.types.v) |-> body.types.v[i].v]
    ELSE IF body.capabilities.k = "list" THEN item_types(body.capabilities.v)
    ELSE <<>>

\* lines 139-146 run on the registry reg at time now: every outcome of the
\* loop, as the registry it leaves, whether a load rebuilt, the records and
\* the missing types
RECURSIVE resolve_each(_, _, _)
resolve_each(reg, types, now) ==
    IF types = <<>>
    THEN {[reg |-> reg, rebuilt |-> FALSE, records |-> <<>>, missing |-> <<>>]}
    ELSE UNION {
            LET record == resolve(res.records, res.providers, Head(types))
                after  == [records |-> res.records, providers |-> res.providers,
                           loaded_at_s |-> res.loaded_at_s]
            IN  {[reg |-> rest.reg,
                  rebuilt |-> res.rebuilt \/ rest.rebuilt,
                  records |-> IF record.k = "none" THEN rest.records
                              ELSE <<record.v>> \o rest.records,
                  missing |-> IF record.k = "none" THEN <<Head(types)>> \o rest.missing
                              ELSE rest.missing] :
                    rest \in resolve_each(after, Tail(types), now)} :
            res \in load_results(reg, FALSE, now)}

\* the response of POST /validate/stack to a request for types
StackResponse(types, status_code, compatible, missing_types, details) ==
    [route |-> "validate_stack", types |-> types, status_code |-> status_code,
     compatible |-> compatible, missing_types |-> missing_types, details |-> details]

\* line 150
stack_compatible_ignoring_missing(result, missing) == result.compatible

stack_compatible(result, missing) == result.compatible /\ missing = <<>>

\* lines 148-153; an exception of the validator leaves the handler and is
\* answered 500
stack_response(types, records, missing, file, strict) ==
    LET result == validate_stack(records, file, strict)
    IN  IF result.raised # ""
        THEN StackResponse(types, 500, FALSE, <<>>, JNull)
        ELSE StackResponse(types, 200, stack_compatible(result.value, missing), missing,
                           result.value.details)

PostValidateStack(body) ==
    /\ LET types == requested_types(body)
       IN  \E done \in resolve_each(Registry, types, clock) :
              /\ SetRegistry(done.reg)
              /\ Loaded([rebuilt |-> done.rebuilt], "validate_stack", FALSE)
              /\ resp' = stack_response(types, done.records, done.missing, constraints,
                                        strict_mode)
    /\ UNCHANGED <<files, rootExists, clock, overrides, th, arg, ret, hc,
                   constraints, strict_mode>>

\* the operator writes, replaces or deletes the constraints file
WriteConstraints(file) ==
    /\ constraints # file
    /\ constraints' = file
    /\ ev' = EnvEvent
    /\ resp' = NoResponse
    /\ UNCHANGED <<files, rootExists, clock, overrides, loaded_at_s, records_by_name,
                   providers_by_type, scanned, scanClock, th, arg, ret, hc, strict_mode>>

\* the contract files written while stacks are validated
StackDocs == 0..2

\* the types lists of the request bodies; "vector-search" has no provider
StackTypeLists ==
    {<<>>, <<"llm">>, <<"vector-search">>, <<"llm", "text-generation">>,
     <<"text-generation", "text-generation">>, <<"vector-search", "llm">>,
     <<"vector-search", "text-generation", "vector-search">>}

StackBodies ==
    {Body(JList([i \in 1..Len(types) |-> JStr(types[i])]), JMissing) :
        types \in StackTypeLists}
    \cup {Body(JMissing, JMissing),
          Body(JNull, JList(<<Item(JStr("llm")), JStr("llm"), Item(JMissing),
                              Item(JStr("vector-search"))>>))}

StackFiles ==
    {NoConstraintsFile,
     ConstraintsFile(TRUE, "json",
                     Constraints(Capacity(JNum(12000, "12000"), JMissing), JMissing)),
     ConstraintsFile(TRUE, "json",
                     Constraints(Capacity(JMissing, JNum(6000, "6000")),
                                 Capacity(JNum(400, "400"), JMissing))),
     ConstraintsFile(TRUE, "json", Constraints(JNull, JMissing))}

InitStack ==
    /\ InitProgram
    /\ rootExists
    /\ overrides.provides_aliases = EmptyMap
    /\ constraints \in StackFiles
    /\ strict_mode \in BOOLEAN
    /\ arg = NoCall
    /\ ret = NoCall

NextStack ==
    \/ \E body \in StackBodies : PostValidateStack(body)
    \/ \E p \in Paths, d \in StackDocs : WriteFile(p, d)
    \/ \E file \in StackFiles : WriteConstraints(file)
    \/ Tick

SpecStack == InitStack /\ [][NextStack]_vars

----------------------------------------------------------------------------
(* The overrides file: overrides.py *)

\* Overrides
Overrides(capabilities, provides_aliases) ==
    [capabilities |-> capabilities, provides_aliases |-> provides_aliases]

\* Overrides(capabilities={}, provides_aliases={})
EmptyOverrides == Overrides(EmptyMap, EmptyMap)

\* a YAML mapping whose keys may be any scalar, as its items in order
YDict(items) == [k |-> "dict", items |-> items]

YItem(key, value) == [key |-> key, value |-> value]

\* the value of one entry under capabilities that is a mapping
OverrideBlock(endpoint, health_check) ==
    [k |-> "map", endpoint |-> endpoint, health_check |-> health_check]

\* a YAML document that is a mapping; a key it lacks is missing
OverridesDoc(capabilities, provides_aliases) ==
    [k |-> "map", capabilities |-> capabilities, provides_aliases |-> provides_aliases]

\* the file that the path names: path is FALSE for None; text tells whether
\* read_text and yaml.safe_load succeed on the content, raw is the document
OverridesFile(path, exists, text, raw) ==
    [path |-> path, exists |-> exists, text |-> text, raw |-> raw]

\* value.get(key) of a capability entry: None, or the string
get_optional(j) == IF j.k \in {"missing", "null"} THEN NoneV ELSE Some(j.v)

\* load_overrides, lines 35-41: the entries under capabilities, one by one
RECURSIVE capability_overrides(_, _)
capability_overrides(cap_overrides, items) ==
    IF items = <<>> THEN cap_overrides
    ELSE LET name  == Head(items).key
             value == Head(items).value
         IN  IF name.k # "str" \/ value.k # "map"
             THEN capability_overrides(cap_overrides, Tail(items))
             ELSE capability_overrides(
                      [n \in DOMAIN cap_overrides \cup {name.v} |->
                          IF n = name.v
                          THEN CapabilityOverride(get_optional(value.endpoint),
                                                  get_optional(value.health_check))
                          ELSE cap_overrides[n]],
                      Tail(items))

\* load_overrides, line 47: both are non-empty strings
alias_is_kept(alias, canonical) ==
    /\ alias.k = "str"
    /\ canonical.k = "str"
    /\ alias.v # ""
    /\ canonical.v # ""

\* load_overrides, lines 46-48: the entries under provides_aliases, one by one
RECURSIVE alias_overrides(_, _)
alias_overrides(provides_aliases, items) ==
    IF items = <<>> THEN provides_aliases
    ELSE LET alias     == Head(items).key
             canonical == Head(items).value
         IN  IF alias_is_kept(alias, canonical)
             THEN alias_overrides(
                      [a \in DOMAIN provides_aliases \cup {alias.v} |->
                          IF a = alias.v THEN canonical.v ELSE provides_aliases[a]],
                      Tail(items))
             ELSE alias_overrides(provides_aliases, Tail(items))

\* load_overrides, lines 22-50
load_overrides(file) ==
    IF ~file.path THEN Returned(EmptyOverrides)
    ELSE IF ~file.exists THEN Returned(EmptyOverrides)
    ELSE IF file.text = "not utf-8" THEN Raises("UnicodeDecodeError")
    ELSE IF file.text = "not yaml" THEN Raises("YAMLError")
    ELSE IF file.raw.k # "map" THEN Returned(EmptyOverrides)
    ELSE LET caps    == file.raw.capabilities
             aliases == file.raw.provides_aliases
         IN  Returned(Overrides(
                 IF caps.k = "dict" THEN capability_overrides(EmptyMap, caps.items)
                                    ELSE EmptyMap,
                 IF aliases.k = "dict" THEN alias_overrides(EmptyMap, aliases.items)
                                       ELSE EmptyMap))

----------------------------------------------------------------------------
(* load_overrides called alone *)

\* entries under capabilities: two well-formed ones, one whose key is a
\* number and one whose value is a string
CapabilityItems == {
    YItem(JStr(NameB), OverrideBlock(JStr(<<"http://o", "/">>), JStr(<<"/hz">>))),
    YItem(JStr(NameA), OverrideBlock(JStr(<<"http://o2">>), JMissing)),
    YItem(JNum(1, <<49>>), OverrideBlock(JStr(<<"http://o2">>), JNull)),
    YItem(JStr(NameA), JStr(<<"http://o2">>))
}

\* entries under provides_aliases: two well-formed ones, one with an empty
\* alias, one with an empty and one with a numeric canonical type
AliasItems == {
    YItem(JStr("llm"), JStr("text-generation")),
    YItem(JStr("text-generation"), JStr("chat")),
    YItem(JStr(""), JStr("chat")),
    YItem(JStr("gen"), JStr("")),
    YItem(JStr("embed"), JNum(1, "1"))
}

\* the mappings of one or two of the items, no key twice
MappingsOf(items) ==
    {YDict(<<>>)} \cup {YDict(<<x>>) : x \in items}
        \cup UNION {{YDict(<<x, y>>) : y \in {z \in items : z.key # x.key}} :
                       x \in items}

OverridesDocs ==
    {JNull, JStr("text"), JList(<<>>)}
        \cup {OverridesDoc(capabilities, provides_aliases) :
                 capabilities \in {JMissing, JNull, JList(<<>>)} \cup MappingsOf(CapabilityItems),
                 provides_aliases \in {JMissing, JStr("llm")} \cup MappingsOf(AliasItems)}

OverridesFiles ==
    {OverridesFile(FALSE, FALSE, "", JNull),
     OverridesFile(TRUE, FALSE, "", JNull),
     OverridesFile(TRUE, TRUE, "not utf-8", JNull),
     OverridesFile(TRUE, TRUE, "not yaml", JNull)}
        \cup {OverridesFile(TRUE, TRUE, "yaml", raw) : raw \in OverridesDocs}

InitOverrides ==
    /\ InitProgram
    /\ rootExists
    /\ overrides = EmptyOverrides
    /\ DefaultValidator
    /\ arg \in {[f |-> "load_overrides", file |-> file] : file \in OverridesFiles}
    /\ ret = NoCall

LoadOverrides ==
    /\ arg.f = "load_overrides"
    /\ ret = NoCall
    /\ LET result == load_overrides(arg.file)
       IN  ret' = [f |-> "load_overrides", raised |-> result.raised,
                   value |-> result.value]
    /\ Elsewhere

NextOverrides == LoadOverrides

SpecOverrides == InitOverrides /\ [][NextOverrides]_vars

----------------------------------------------------------------------------
(* GET /status: app.py, status.  The handler is a coroutine: it lists the
   capabilities once and, with refresh, checks the listed records one after
   the other; between two iterations of its loop the worker threads run
   (GET /registry), and a rebuild there replaces the records of the
   snapshot while the handler goes on with the records of its listing.  arg
   holds the handler's locals. *)

\* status, lines 105-112: the record after its health check came to health
checked(record, health, now) ==
    [record EXCEPT !.last_health_check_s = Some(now),
                   !.status = IF health.code = "" THEN "healthy" ELSE "unhealthy",
                   !.last_error =
                       IF health.code = "" THEN NoneV
                       ELSE Some(RoutingError(health.code, record.contract.name).message)]

\* the records of the listing are those of the snapshot as long as no
\* rebuild has replaced it: a rebuild later than the listing has a later
\* build time
listing_in_snapshot == arg.built = loaded_at_s

StatusEvent == Event("status", FALSE, FALSE, NoBefore)

\* mutant of next_to_check: the loop ends with the first check that fails
next_to_check_until_failure(caps, i, health) ==
    IF health.code = "" THEN i + 1 ELSE Len(caps) + 1

\* status, line 104: the loop goes on with the next record of caps whatever
\* the check of record i came to
next_to_check(caps, i, health) == i + 1

\* status, lines 102-103: caps = registry.list_capabilities()
StatusList(refresh) ==
    /\ arg = NoCall
    /\ \E res \in load_results(Registry, FALSE, clock) :
          /\ SetRegistry(res)
          /\ Loaded(res, "status", FALSE)
          /\ LET caps == list_records(res.records)
             IN  arg' = [f |-> "status", refresh |-> refresh, caps |-> caps,
                         i |-> IF refresh THEN 1 ELSE Len(caps) + 1,
                         built |-> res.loaded_at_s, calls |-> <<>>, upstream |-> <<>>]
    /\ resp' = NoResponse
    /\ UNCHANGED <<files, rootExists, clock, overrides, th, ret, constraints,
                   strict_mode, hc>>

\* status, lines 104-112: one iteration of the loop
StatusCheck ==
    /\ arg.f = "status"
    /\ arg.i <= Len(arg.caps)
    /\ \E health \in check_health(arg.caps[arg.i]) :
          LET record == checked(arg.caps[arg.i], health, clock)
              name   == record.contract.name
          IN  /\ arg' = [arg EXCEPT !.caps[arg.i] = record,
                                    !.i = next_to_check(arg.caps, arg.i, health),
                                    !.calls = @ \o health.calls,
                                    !.upstream = @ \o (IF health.calls = <<>> THEN <<>>
                                                       ELSE <<health.outcome>>)]
              /\ records_by_name' =
                    IF listing_in_snapshot
                    THEN [records_by_name EXCEPT ![name] = record]
                    ELSE records_by_name
    /\ ev' = StatusEvent
    /\ resp' = NoResponse
    /\ UNCHANGED <<files, rootExists, clock, overrides, loaded_at_s, providers_by_type,
                   scanned, scanClock, th, ret, constraints, strict_mode, hc>>

\* status, lines 114-127: the capabilities of the response, from caps
StatusReturn ==
    /\ arg.f = "status"
    /\ arg.i > Len(arg.caps)
    /\ resp' = [Response("status", "", 200, "", NoneV, {}, arg.calls,
                         IF arg.refresh THEN "refresh" ELSE "")
                  EXCEPT !.upstream = arg.upstream, !.data = arg.caps]
    /\ arg' = NoCall
    /\ ev' = StatusEvent
    /\ UNCHANGED <<files, rootExists, clock, overrides, loaded_at_s, records_by_name,
                   providers_by_type, scanned, scanClock, th, ret, constraints,
                   strict_mode, hc>>

\* the contract files written while GET /status runs: "b" with an api block,
\* "a" without one
StatusDocs == {0, 1, 3}

NextStatus ==
    \/ \E refresh \in BOOLEAN : StatusList(refresh)
    \/ StatusCheck
    \/ StatusReturn
    \/ ListRegistry
    \/ \E p \in Paths, d \in StatusDocs : WriteFile(p, d)
    \/ Tick

SpecStatus == InitApp /\ [][NextStatus]_vars

----------------------------------------------------------------------------
(* The blueprint runner: tools/ezansi-blueprint-runner/runner.py, cmd_apply
   and cmd_destroy on one run directory.  arg holds the run: the compose
   projects that are up, the content of state.json and the locals of an
   apply that is under way; ret holds what the last command came to. *)

\* cmd_apply, lines 739-747: the entry of a started capability; its compose
\* project is named after the run and the capability
StartedEntry(cap_id) == [capability_id |-> cap_id, project |-> cap_id]

\* the run directory and an apply under way: cap_ids, the capabilities still
\* to start and started, the entries of those it has started
Run(pc, cap_ids, started, up, state_json) ==
    [f |-> "run", pc |-> pc, cap_ids |-> cap_ids, started |-> started, up |-> up,
     state_json |-> state_json]

\* how a command ended: its exit code and the projects it ran compose down for
Ended(command, exit_code, downs) ==
    [f |-> command, exit_code |-> exit_code, downs |-> downs]

\* what every step of the runner leaves as it is
RunnerFrame ==
    UNCHANGED <<files, rootExists, clock, overrides, loaded_at_s, records_by_name,
                providers_by_type, ev, scanned, scanClock, th, hc, resp,
                constraints, strict_mode>>

\* cmd_apply, lines 661-706: the blueprint resolves to the capabilities caps
ApplyBegin(caps) ==
    /\ arg.pc = "idle"
    /\ arg' = [arg EXCEPT !.pc = "apply", !.cap_ids = Sorted(caps), !.started = <<>>]
    /\ ret' = NoCall
    /\ RunnerFrame

\* cmd_apply, lines 706-747: one iteration of the loop; a clone, a check or
\* a compose up that fails ends the command there (_die or the exception
\* of the subprocess)
ApplyStartCapability(ok) ==
    /\ arg.pc = "apply"
    /\ arg.cap_ids # <<>>
    /\ LET cap_id == Head(arg.cap_ids)
       IN  IF ok
           THEN /\ arg' = [arg EXCEPT !.cap_ids = Tail(@),
                                      !.started = Append(@, StartedEntry(cap_id)),
                                      !.up = @ \cup {cap_id}]
                /\ ret' = NoCall
           ELSE /\ arg' = [arg EXCEPT !.pc = "idle", !.cap_ids = <<>>, !.started = <<>>]
                /\ ret' = Ended("apply", 2, <<>>)
    /\ RunnerFrame

\* cmd_apply, lines 749-759: state.json, written after the loop
ApplyWriteState ==
    /\ arg.pc = "apply"
    /\ arg.cap_ids = <<>>
    /\ arg' = [arg EXCEPT !.pc = "idle", !.started = <<>>,
                          !.state_json = Some(arg.started)]
    /\ ret' = Ended("apply", 0, <<>>)
    /\ RunnerFrame

\* cmd_destroy, lines 799-824: the projects of the capabilities of state.json
down_projects(capabilities) ==
    [i \in 1..Len(capabilities) |-> capabilities[i].project]

\* cmd_destroy, lines 786-832; failing are the projects whose compose down
\* fails
Destroy(failing) ==
    /\ arg.pc = "idle"
    /\ IF arg.state_json.k = "none"
       THEN /\ failing = {}
            /\ arg' = arg
            /\ ret' = Ended("destroy", 2, <<>>)
       ELSE LET downs == down_projects(arg.state_json.v)
            IN  /\ failing \subseteq Range(downs)
                /\ arg' = [arg EXCEPT !.up = @ \ (Range(downs) \ failing)]
                /\ ret' = Ended("destroy", IF failing = {} THEN 0 ELSE 1, downs)
    /\ RunnerFrame

InitRunner ==
    /\ InitProgram
    /\ rootExists
    /\ overrides = EmptyOverrides
    /\ DefaultValidator
    /\ arg = Run("idle", <<>>, <<>>, {}, NoneV)
    /\ ret = NoCall

NextRunner ==
    \/ \E caps \in SUBSET Names \ {{}} : ApplyBegin(caps)
    \/ \E ok \in BOOLEAN : ApplyStartCapability(ok)
    \/ ApplyWriteState
    \/ \E failing \in SUBSET Names : Destroy(failing)

SpecRunner == InitRunner /\ [][NextRunner]_vars

----------------------------------------------------------------------------
(* What the claims speak of *)

IsRead == ev.op \in {"list_capabilities", "get_by_type", "resolve_provider"}

\* the names indexed under t merged with those indexed under its alias-normalized form
IndexedUnder(t) ==
    Range(DictGet(providers_by_type, t, <<>>))
        \cup Range(DictGet(providers_by_type, normalize_type(t), <<>>))

IsNonEmptyStr(j, empty) == j.k = "str" /\ j.v # empty

\* a contract file that can be read, is a JSON object and has a name, a
\* version and at least one provided type
ValidFile(file) ==
    /\ file.io = "ok"
    /\ file.text = "object"
    /\ IsNonEmptyStr(file.data.name, <<>>)
    /\ IsNonEmptyStr(file.data.version, "")
    /\ \/ IsNonEmptyStr(file.data.provides, "")
       \/ /\ file.data.provides.k = "list"
          /\ \E i \in 1..Len(file.data.provides.v) :
                IsNonEmptyStr(file.data.provides.v[i], "")

\* the types a valid contract file declares
DeclaredTypes(file) ==
    IF file.data.provides.k = "str" THEN {file.data.provides.v}
    ELSE {file.data.provides.v[i].v : i \in
            {j \in 1..Len(file.data.provides.v) :
                IsNonEmptyStr(file.data.provides.v[j], "")}}

ValidPaths(fs) == {p \in Paths : fs[p] # 0 /\ ValidFile(Catalogue[fs[p]])}

InvalidPaths(fs) == {p \in Paths : fs[p] # 0 /\ ~ValidFile(Catalogue[fs[p]])}

FileName(fs, p) == Catalogue[fs[p]].data.name.v

\* the snapshot holds the valid contract files of fs and nothing else
Reflects(fs) ==
    /\ DOMAIN records_by_name = {FileName(fs, p) : p \in ValidPaths(fs)}
    /\ \A n \in DOMAIN records_by_name :
          LET r == records_by_name[n]
          IN  /\ r.contract_path \in ValidPaths(fs)
              /\ r.contract.name = n
              /\ FileName(fs, r.contract_path) = n
              /\ Range(r.contract.provides) = DeclaredTypes(Catalogue[fs[r.contract_path]])
    /\ \A t \in DOMAIN providers_by_type : providers_by_type[t] # <<>>
    /\ \A t \in Types :
          Range(DictGet(providers_by_type, t, <<>>)) =
              {FileName(fs, p) : p \in
                  {q \in ValidPaths(fs) :
                      \E d \in DeclaredTypes(Catalogue[fs[q]]) :
                          d = t \/ normalize_type(d) = t}}
    /\ DOMAIN providers_by_type \subseteq Types

----------------------------------------------------------------------------
(* C1: after resolve_provider's load(), for every type t, resolve_provider(t)
   is the record of the lexicographically smallest name among the providers
   indexed under t merged with those indexed under the alias-normalized form
   of t, and it is None exactly when no provider is indexed under either. *)
C1_ResolveSmallestName ==
    ev.op = "resolve_provider" =>
        \A t \in Types :
            LET r == resolve_provider(t)
            IN  /\ (r.k = "none") <=> (IndexedUnder(t) = {})
                /\ r.k = "some" =>
                      /\ r.v.contract.name \in IndexedUnder(t)
                      /\ \A m \in IndexedUnder(t) :
                            m = r.v.contract.name \/ StrLess(r.v.contract.name, m)
                      /\ r.v = records_by_name[r.v.contract.name]

\* "b" and "a" both provide "text-generation", and resolve_provider answered "a"
C1_Witness ==
    /\ ev.op = "resolve_provider"
    /\ DictGet(providers_by_type, "text-generation", <<>>) = <<NameA, NameB>>
    /\ resolve_provider("text-generation").k = "some"
    /\ resolve_provider("text-generation").v.contract.name = NameA

(* C2: for every alias rule alias -> canonical of the overrides,
   get_by_type(alias) and get_by_type(canonical) list the same providers. *)
C2_AliasSymmetry ==
    ev.op = "get_by_type" =>
        \A alias \in DOMAIN overrides.provides_aliases :
            get_by_type(alias).providers =
                get_by_type(overrides.provides_aliases[alias]).providers

(* C3: with registry reads running while another request rebuilds, a read
   sees the type index and the records map of one and the same build, so
   resolve_provider never returns None for a type whose provider list it
   found non-empty, and the record it returns is the one its own provider
   list names. *)
C3_NoTornRead ==
    \A w \in Threads :
        (th[w].pc = "done" /\ th[w].providers # <<>>) =>
            /\ th[w].result.k = "some"
            /\ th[w].result.v.contract.name = th[w].providers[1]

(* C4: a load call rebuilds the snapshot if and only if force is requested,
   or no snapshot was built yet, or at least CacheTtlSeconds have elapsed
   since the last build; a rebuild publishes the maps built from the files
   and the time of the call, and every other call leaves the records map,
   the type index and the build time unchanged. *)
C4_RebuildIffForcedFirstOrExpired ==
    [][ev'.op \in {"load", "list_capabilities", "get_by_type", "resolve_provider"} =>
         LET due == \/ ev'.force
                    \/ loaded_at_s = 0
                    \/ clock - loaded_at_s >= CacheTtlSeconds
         IN  /\ ev'.rebuilt <=> due
             /\ due => /\ loaded_at_s' = clock
                       /\ \E contract_files \in rglob(rootExists, files) :
                             /\ records_by_name' = build(contract_files, files).records
                             /\ providers_by_type' = build(contract_files, files).providers
             /\ ~due => UNCHANGED <<records_by_name, providers_by_type, loaded_at_s>>
      ]_vars

\* a load without force reused a non-empty snapshot although the files changed
C4_Witness ==
    /\ ev.op = "load"
    /\ ~ev.force
    /\ ~ev.rebuilt
    /\ records_by_name # EmptyMap
    /\ files # scanned

ListedNames == [i \in 1..Len(list_capabilities) |-> list_capabilities[i].contract.name]

ListedOnceAscending ==
    /\ Len(list_capabilities) = Cardinality(DOMAIN records_by_name)
    /\ \A n \in DOMAIN records_by_name :
          \E i \in 1..Len(list_capabilities) : list_capabilities[i] = records_by_name[n]
    /\ \A i, j \in 1..Len(list_capabilities) :
          i < j => StrLess(list_capabilities[i].contract.name,
                           list_capabilities[j].contract.name)

(* C5: list_capabilities returns every record of the snapshot exactly once,
   in ascending order of contract name, and a call that does not rebuild
   lists the same names in the same order as before. *)
C5_ListSortedAndStable ==
    [][/\ ev'.op = "list_capabilities" => ListedOnceAscending'
       /\ ~ev'.rebuilt => ListedNames' = ListedNames
      ]_vars

\* list_capabilities answered from the cache with two records, "a" before "b"
C5_Witness ==
    /\ ev.op = "list_capabilities"
    /\ ~ev.rebuilt
    /\ ListedNames = <<NameA, NameB>>

(* C6: in the state that any rebuild leaves, TTL-triggered or forced,
   every record of the new snapshot has status unknown, no last
   health-check time and no last error, whatever health checks had recorded
   in the previous snapshot and whether or not the contract files changed. *)
C6_HealthNotCarriedAcrossReload ==
    ev.rebuilt =>
        \A n \in DOMAIN records_by_name :
            /\ records_by_name[n].status = "unknown"
            /\ records_by_name[n].last_health_check_s.k = "none"
            /\ records_by_name[n].last_error.k = "none"

\* a rebuild over unchanged files, after a health check had left its result
\* in the record of a capability that the new snapshot holds too
C6_Witness ==
    /\ ev.rebuilt
    /\ ev.before.same_files
    /\ ev.before.checked \cap DOMAIN records_by_name # {}

(* C7: what a registry read returns reflects the contract files as they
   were at most CacheTtlSeconds before the read, and a read made once
   CacheTtlSeconds have elapsed since the last build reflects the files
   as they are at the read. *)
C7_BoundedStaleness ==
    IsRead =>
        /\ Reflects(scanned)
        /\ clock - scanClock <= CacheTtlSeconds
        /\ clock - ev.before.loaded_at_s >= CacheTtlSeconds => Reflects(files)

\* a read found the snapshot expired and its rebuild changed the set of records
C7_Witness ==
    /\ IsRead
    /\ ~ev.force
    /\ ev.rebuilt
    /\ ev.before.loaded_at_s # 0
    /\ ev.before.names # DOMAIN records_by_name

(* C8: a rebuild over files of which some cannot be read, are not JSON or
   fail validation publishes a snapshot that holds a record and the index
   entries of every valid contract file, and neither a record nor an index
   entry of an invalid one. *)
C8_InvalidFilesSkipped ==
    ev.rebuilt => Reflects(files)

\* a rebuild over one valid file and one that fails validation
C8_Witness ==
    /\ ev.rebuilt
    /\ ValidPaths(files) # {}
    /\ \E p \in InvalidPaths(files) : Catalogue[files[p]].text = "object"

(* C9: a rebuild that runs while the registry root does not exist publishes
   an empty snapshot: list_capabilities returns no record and
   resolve_provider returns None for every type. *)
C9_MissingRootGivesEmptySnapshot ==
    (ev.rebuilt /\ ~rootExists) =>
        /\ list_capabilities = <<>>
        /\ \A t \in Types : resolve_provider(t).k = "none"
        /\ \A t \in Types : get_by_type(t).providers = <<>>

\* the root was missing at a rebuild that followed a non-empty snapshot
C9_Witness ==
    /\ ev.rebuilt
    /\ ~rootExists
    /\ ev.before.names # {}

\* some record of the snapshot provides t, literally or through an alias
\* rule applied to t or to a provided type
ProvidedBySomeRecord(t) ==
    \E n \in DOMAIN records_by_name :
        \E p \in Range(records_by_name[n].contract.provides) :
            \/ p = t
            \/ p = normalize_type(t)
            \/ normalize_type(p) = t
            \/ normalize_type(p) = normalize_type(t)

(* C10: a POST / whose type no record of the registry provides, literally
   or through an alias, is answered 404 with code NOT_FOUND, makes no
   outbound call, and lists in available_types every type that some record
   of the registry provides. *)
C10_UnknownTypeIsNotFound ==
    (resp.route = "execute" /\ ~ProvidedBySomeRecord(resp.type)) =>
        /\ resp.status_code = 404
        /\ resp.code = "NOT_FOUND"
        /\ resp.calls = <<>>
        /\ resp.available_types =
              UNION {Range(records_by_name[n].contract.provides) :
                        n \in DOMAIN records_by_name}

\* str(value) of a JSON scalar, a missing or null value giving the empty string
Coerced(j, empty) == IF j.k \in {"null", "missing"} THEN empty ELSE j.v

\* the entries of a provides value: those of the list, or the one scalar
ProvidesEntries(j) ==
    IF j.k \in {"null", "missing"} THEN {}
    ELSE IF j.k = "list" THEN Range(j.v) ELSE {j}

\* the named entries of an endpoints value that have a non-empty path
EntriesWithPath(j) ==
    IF j.k # "map" THEN {}
    ELSE {n \in DOMAIN j.items :
             /\ j.items[n].k = "map"
             /\ Coerced(j.items[n].path, <<>>) # <<>>}

(* C19: parse_contract succeeds if and only if, after string coercion, name
   and version are non-empty and provides, a scalar or a list, has at least
   one non-empty entry; on success the endpoints map holds exactly the named
   entries that have a non-empty path, with the method upper-cased and POST
   when the entry gives none. *)
C19_ParseSucceedsIffRequiredFields ==
    ret.f = "parse_contract" =>
        /\ ret.value.ok <=>
              /\ Coerced(arg.data.name, <<>>) # <<>>
              /\ Coerced(arg.data.version, "") # ""
              /\ \E entry \in ProvidesEntries(arg.data.provides) :
                    Coerced(entry, "") # ""
        /\ ret.value.ok =>
              /\ DOMAIN ret.value.endpoints = EntriesWithPath(arg.data.endpoints)
              /\ \A n \in DOMAIN ret.value.endpoints :
                    LET given == arg.data.endpoints.items[n].method
                    IN  ret.value.endpoints[n].method =
                            IF given.k \in {"null", "missing"} THEN "POST"
                            ELSE Upper(given.v)

\* a call of execute that gets past the checks of the record and the type
Routed == ret.f = "execute" /\ arg.record.api_endpoint.k = "some" /\ arg.type # ""

\* the payload names an endpoint of the record's contract and its params,
\* if any, are a mapping
NamesEndpoint ==
    /\ arg.payload.k = "map"
    /\ arg.payload.endpoint.k = "str"
    /\ arg.payload.endpoint.v \in DOMAIN arg.record.contract.endpoints
    /\ arg.payload.params.k \in {"missing", "null", "map"}

\* the keys of the {name} placeholders of a path template
TemplateKeys(path) ==
    {PlaceholderKey[path[i]] : i \in {j \in 1..Len(path) : path[j] \in DOMAIN PlaceholderKey}}

\* the keys that payload.params has
GivenKeys(payload) ==
    IF payload.params.k = "map" THEN ParamKeys(payload.params) ELSE {}

\* the template with each placeholder replaced by the value params gives it
Substituted(path, params) ==
    [i \in 1..Len(path) |->
        IF path[i] \in DOMAIN PlaceholderKey
        THEN ParamValue(params, PlaceholderKey[path[i]])
        ELSE path[i]]

(* C12: when payload.endpoint names a contract endpoint whose path template
   has {name} placeholders, execute sends the request to the template with
   payload.params substituted when params has every placeholder, and fails
   with INVALID naming a missing key, sending nothing, when some placeholder
   has no entry in params, also when params is absent or an empty map. *)
C12_PathTemplating ==
    (Routed /\ NamesEndpoint) =>
        LET template == arg.record.contract.endpoints[arg.payload.endpoint.v].path
            missing  == TemplateKeys(template) \ GivenKeys(arg.payload)
        IN  TemplateKeys(template) # {} =>
                IF missing = {}
                THEN /\ ret.value.code = ""
                     /\ Len(ret.value.calls) = 1
                     /\ ret.value.calls[1].url =
                            arg.record.api_endpoint.v
                                \o Substituted(template, arg.payload.params)
                ELSE /\ ret.value.code = "INVALID"
                     /\ ret.value.details.missing \in missing
                     /\ ret.value.calls = <<>>

RouterCodes == {"NO_API", "INVALID", "UNSUPPORTED", "UNREACHABLE", "UNHEALTHY"}

(* C13: every failure of check_health and of execute is a RoutingError
   whose code is one of NO_API, INVALID, UNSUPPORTED, UNREACHABLE,
   UNHEALTHY; a transport failure of the outbound call is UNREACHABLE in
   both. *)
C13_EveryFailureIsTyped ==
    ret.f \in {"execute", "check_health"} =>
        /\ ret.value.code \in RouterCodes \cup {""}
        /\ ret.value.outcome.failed => ret.value.code = "UNREACHABLE"

\* the payload has the legacy key path
HasPath == arg.payload.k = "map" /\ arg.payload.path.k # "missing"

(* C14: when the payload names no endpoint, execute sends type
   text-generation to /api/generate with POST; sends vector-search,
   text-embeddings and embedding with POST to payload.path and fails with
   INVALID, sending nothing, when payload.path is missing; and fails with
   UNSUPPORTED, sending nothing, for every other type, with or without
   payload.path. *)
C14_LegacyTable ==
    (Routed /\ (arg.payload.k # "map" \/ arg.payload.endpoint.k = "missing")) =>
        LET SentTo(path) ==
                /\ ret.value.code = ""
                /\ Len(ret.value.calls) = 1
                /\ ret.value.calls[1].method = "POST"
                /\ ret.value.calls[1].url = arg.record.api_endpoint.v \o path
            Fails(code) == ret.value.code = code /\ ret.value.calls = <<>>
        IN  CASE arg.type = "text-generation" -> SentTo(<<"/api/generate">>)
              [] arg.type \in {"vector-search", "text-embeddings", "embedding"} ->
                    IF HasPath
                    THEN SentTo(IF arg.payload.path.k = "null" THEN <<"None">>
                                ELSE arg.payload.path.v)
                    ELSE Fails("INVALID")
              [] OTHER -> Fails("UNSUPPORTED")

\* a type outside the table was refused although the caller gave payload.path
C14_Witness ==
    /\ Routed
    /\ arg.type = "chat"
    /\ arg.payload.k = "map"
    /\ arg.payload.endpoint.k = "missing"
    /\ arg.payload.path.k = "str"
    /\ ret.value.code = "UNSUPPORTED"

(* C18: check_health fails with NO_API, sending nothing, when the record
   has no effective endpoint or no health-check path; otherwise it sends
   exactly one GET to endpoint + health-check path, fails with UNREACHABLE
   on a transport failure, fails with UNHEALTHY on a status of 400 or more,
   and returns normally exactly when the status is below 400. *)
C18_CheckHealth ==
    ret.f = "check_health" =>
        IF arg.record.api_endpoint.k = "none" \/ arg.record.health_check.k = "none"
        THEN ret.value.code = "NO_API" /\ ret.value.calls = <<>>
        ELSE /\ ret.value.calls =
                    <<Call("GET", arg.record.api_endpoint.v \o arg.record.health_check.v,
                           JMissing)>>
             /\ ret.value.outcome.failed => ret.value.code = "UNREACHABLE"
             /\ (~ret.value.outcome.failed /\ ret.value.outcome.status_code >= 400) =>
                    ret.value.code = "UNHEALTHY"
             /\ ret.value.code = "" <=>
                    (~ret.value.outcome.failed /\ ret.value.outcome.status_code < 400)

\* the GET was answered with status 400 and check_health raised UNHEALTHY
C18_Witness ==
    /\ ret.f = "check_health"
    /\ ~ret.value.outcome.failed
    /\ ret.value.outcome.status_code = 400
    /\ ret.value.code = "UNHEALTHY"

\* validate_stack was called and returned a result
Validated == ret.f = "validate_stack" /\ ret.raised = ""

\* the amount a resource or capacity value stands for: a missing, null or
\* empty value counts as 0
Amount(j) == IF j.k = "num" THEN j.n ELSE 0

RECURSIVE SumOver(_, _)
SumOver(capabilities, key) ==
    IF capabilities = <<>> THEN 0
    ELSE Amount(Head(capabilities).contract.resources[key])
            + SumOver(Tail(capabilities), key)

\* available_mb if present, else total_mb, else 0, of the block key of the
\* constraints document
AvailableIn(file, key) ==
    IF file.exists /\ file.text = "json" /\ file.data.k = "map" /\ file.data[key].k = "map"
    THEN IF file.data[key].available_mb.k # "missing"
         THEN Amount(file.data[key].available_mb)
         ELSE Amount(file.data[key].total_mb)
    ELSE 0

\* the breakdown of one resource is the claimed arithmetic; an available
\* amount of 0 is reported as null
Breakdown(reported, resource, capacity) ==
    LET need == SumOver(arg.capabilities, resource)
        have == AvailableIn(constraints, capacity)
    IN  /\ reported.required_mb = need
        /\ reported.available_mb = IF have = 0 THEN NoneV ELSE Some(have)
        /\ reported.ok = (have = 0 \/ need <= have)

(* C15: a validate_stack that returns reports, for RAM and for storage,
   required = the sum of the resource over all input records with a missing
   key counting as 0, available = available_mb if present, else total_mb,
   else 0, ok = (available = 0 or required <= available), and a RAM
   headroom of available - required when available is non-zero and null
   otherwise; in non-strict mode compatible = ram ok and storage ok.
   6000 + 2000 against 12000 gives required 8000, ok, headroom 4000, and
   against 6000 gives not ok. *)
C15_ResourceArithmetic ==
    Validated =>
        LET ram == ret.value.details.ram
            storage == ret.value.details.storage
            have == AvailableIn(constraints, "memory")
        IN  /\ Breakdown(ram, "ram_mb", "memory")
            /\ Breakdown(storage, "storage_mb", "storage")
            /\ ram.headroom_mb = IF have # 0 THEN Some(have - ram.required_mb) ELSE NoneV
            /\ ~strict_mode => (ret.value.compatible = (ram.ok /\ storage.ok))
            /\ (ram.required_mb = 8000 /\ have = 12000) =>
                    (ram.ok /\ ram.headroom_mb = Some(4000))
            /\ (ram.required_mb = 8000 /\ have = 6000) => ~ram.ok

\* records requiring 6000 and 2000 were validated against 12000 available
C15_Witness ==
    /\ Validated
    /\ Len(arg.capabilities) = 2
    /\ Amount(arg.capabilities[1].contract.resources.ram_mb) = 6000
    /\ Amount(arg.capabilities[2].contract.resources.ram_mb) = 2000
    /\ ret.value.details.ram =
            [required_mb |-> 8000, available_mb |-> Some(12000), ok |-> TRUE,
             headroom_mb |-> Some(4000)]

(* C16: when RAM fits with a headroom below 1024 MB (7200 required against
   8000 available) and storage fits, validate_stack is incompatible in
   strict mode and compatible in non-strict mode, and the warnings list it
   reports is the one the validator of the other mode reports for the same
   records and constraints. *)
C16_StrictHeadroom ==
    (/\ Validated
     /\ ret.value.details.ram.ok
     /\ ret.value.details.storage.ok
     /\ ret.value.details.ram.required_mb = 7200
     /\ ret.value.details.ram.available_mb = Some(8000)) =>
        /\ ret.value.compatible = ~strict_mode
        /\ ret.value.details.warnings =
                validate_stack(arg.capabilities, constraints, ~strict_mode)
                    .value.details.warnings

\* the constraints file is missing, is no JSON, or holds no object
NoDocument ==
    ~constraints.exists \/ constraints.text # "json" \/ constraints.data.k # "map"

(* C17: load_constraints and validate_stack return normally for every state
   of the constraints file, and a file that is missing, unparseable or no
   object makes validate_stack report the stack compatible. *)
C17_ValidatorNeverFails ==
    ret.f \in {"load_constraints", "validate_stack"} =>
        /\ ret.raised = ""
        /\ (ret.f = "validate_stack" /\ NoDocument) => ret.value.compatible

\* POST /validate/stack was answered with a result
StackAnswered == resp.route = "validate_stack" /\ resp.status_code = 200

\* the requested type resolves to no provider in the snapshot
Unresolved(service_type) == resolve_provider(service_type).k = "none"

\* the sum of a resource over the capabilities the requested types resolve to
RECURSIVE ResolvedSum(_, _)
ResolvedSum(types, key) ==
    IF types = <<>> THEN 0
    ELSE (IF Unresolved(Head(types)) THEN 0
          ELSE Amount(resolve_provider(Head(types)).v.contract.resources[key]))
            + ResolvedSum(Tail(types), key)

(* C11: an answer of POST /validate/stack has compatible = false whenever
   at least one requested type resolves to no provider, whatever the
   constraints; missing_types lists exactly the requested types that did
   not resolve; and the required amounts of the details are summed over
   the capabilities of the types that did resolve. *)
C11_MissingTypeIsIncompatible ==
    StackAnswered =>
        /\ resp.missing_types = SelectSeq(resp.types, Unresolved)
        /\ (\E i \in 1..Len(resp.types) : Unresolved(resp.types[i])) => ~resp.compatible
        /\ resp.details.ram.required_mb = ResolvedSum(resp.types, "ram_mb")
        /\ resp.details.storage.required_mb = ResolvedSum(resp.types, "storage_mb")

\* "vector-search" did not resolve and "llm" did, with room to spare: the
\* resources fit and the answer is incompatible all the same
C11_Witness ==
    /\ StackAnswered
    /\ resp.types = <<"vector-search", "llm">>
    /\ resp.missing_types = <<"vector-search">>
    /\ resp.details.ram =
            [required_mb |-> 6000, available_mb |-> Some(12000), ok |-> TRUE,
             headroom_mb |-> Some(6000)]
    /\ resp.details.storage.ok
    /\ resp.details.warnings = <<>>
    /\ ~resp.compatible

\* the HTTP status the error code stands for
StatusOf(code) ==
    CASE code = "NOT_FOUND" -> 404
      [] code \in {"NO_API", "INVALID", "UNSUPPORTED"} -> 400
      [] code \in {"UNREACHABLE", "UNHEALTHY"} -> 503

(* C20: an error answer of POST / or of GET /registry/{type}/health has the
   HTTP status that its error code alone determines: 404 for NOT_FOUND, 400
   for NO_API, INVALID and UNSUPPORTED, 503 for UNREACHABLE and UNHEALTHY. *)
C20_StatusFollowsCode ==
    (resp.route \in {"execute", "health"} /\ resp.code # "") =>
        resp.status_code = StatusOf(resp.code)

\* POST / was answered for a type that resolves to a record of the snapshot
Executed == resp.route = "execute" /\ resolve_provider(resp.type).k = "some"

(* C21: whenever the record that an execute request resolves to has an
   effective endpoint, from its contract or from an override, POST / is not
   answered NO_API. *)
C21_NoApiOnlyWithoutEndpoint ==
    (Executed /\ resolve_provider(resp.type).v.api_endpoint.k = "some") =>
        resp.code # "NO_API"

\* the outcome of the proxied call of the request, when it was made
ProxiedCall == Executed /\ Len(resp.upstream) = 2

(* C22: whenever the proxied call of an execute request is answered with a
   status of 400 or more, the request fails with UNHEALTHY and POST / is
   answered 503. *)
C22_UpstreamErrorIsUnhealthy ==
    (ProxiedCall /\ ~resp.upstream[2].failed /\ resp.upstream[2].status_code >= 400) =>
        resp.code = "UNHEALTHY" /\ resp.status_code = 503

\* the body kept of an upstream answer: the JSON value, or the first 4096
\* characters of the text
KeptBody(body) ==
    IF body.k = "json" THEN body.v
    ELSE [k |-> "map", text |-> [chars |-> IF body.chars > 4096 THEN 4096 ELSE body.chars]]

(* C23: for every answer of the upstream to the proxied call, whatever its
   status, the result has the name of the resolved record as provider and,
   as data, the decoded JSON body or {text: the body cut to 4096
   characters}; POST / reports status success exactly when the upstream
   status is below 400 and error otherwise. *)
C23_ResultOfEveryAnswer ==
    (ProxiedCall /\ ~resp.upstream[2].failed) =>
        /\ resp.status_code = 200
        /\ resp.provider = Some(resolve_provider(resp.type).v.contract.name)
        /\ resp.data = KeptBody(resp.upstream[2].body)
        /\ resp.status = IF resp.upstream[2].status_code < 400 THEN "success" ELSE "error"

\* the upstream answered 400 with a text longer than 4096 characters
C23_Witness ==
    /\ ProxiedCall
    /\ resp.upstream[2] = Replied(400, TextBody(4097))
    /\ resp.data = [k |-> "map", text |-> [chars |-> 4096]]
    /\ resp.status = "error"

\* the sequence lists the names of the set once each, in ascending order
ListsAscending(names, S) ==
    /\ Len(names) = Cardinality(S)
    /\ Range(names) = S
    /\ \A i \in 1..(Len(names) - 1) : StrLess(names[i], names[i + 1])

(* C24: when the payload has the key endpoint, whatever the type, execute
   takes method and path from the contract's endpoints entry of that name
   and never answers from the legacy table; an empty or unknown name fails
   with INVALID and sends nothing, and the error of an unknown name lists
   the names of the contract's endpoints in ascending order. *)
C24_EndpointModeOnly ==
    (Routed /\ arg.payload.k = "map" /\ arg.payload.endpoint.k # "missing") =>
        LET endpoint_name == IF arg.payload.endpoint.k = "str" THEN arg.payload.endpoint.v
                             ELSE <<>>
            endpoints == arg.record.contract.endpoints
            base == arg.record.api_endpoint.v
        IN  /\ ret.value.code \in {"", "INVALID"}
            /\ endpoint_name \notin DOMAIN endpoints =>
                    /\ ret.value.code = "INVALID"
                    /\ ret.value.calls = <<>>
                    /\ endpoint_name # <<>> =>
                            ListsAscending(ret.value.details.available_endpoints,
                                           DOMAIN endpoints)
            /\ ret.value.code = "" =>
                    LET call == ret.value.calls[1]
                        template == endpoints[endpoint_name].path
                    IN  /\ call.method = endpoints[endpoint_name].method
                        /\ Len(call.url) = Len(base) + Len(template)
                        /\ \A i \in 1..Len(template) :
                              template[i] \notin DOMAIN PlaceholderKey =>
                                    call.url[Len(base) + i] = template[i]

\* a type outside the legacy table was sent with GET to the path of the
\* endpoint "g"
C24_Witness ==
    /\ Routed
    /\ arg.type = "chat"
    /\ arg.payload.k = "map"
    /\ arg.payload.endpoint = JStr(<<103>>)
    /\ ret.value.code = ""
    /\ ret.value.calls[1].method = "GET"
    /\ ret.value.calls[1].url = <<"http://a", "/items/", "42">>

(* C25: the body of the request that execute sends is payload.json when
   the payload has the key json; else nothing when the payload has the key
   path; else the request without its type, which is {payload: payload}
   and in endpoint mode still holds the endpoint and the params. *)
C25_BodySelection ==
    (Routed /\ ret.value.code = "") =>
        ret.value.calls[1].body =
            IF arg.payload.k = "map" /\ arg.payload.json.k # "missing"
            THEN arg.payload.json
            ELSE IF arg.payload.k = "map" /\ arg.payload.path.k # "missing"
            THEN JNull
            ELSE [k |-> "request", payload |-> arg.payload]

\* in endpoint mode, without json and path, the request was sent as the
\* body with the endpoint and the params in it
C25_Witness ==
    /\ Routed
    /\ ret.value.code = ""
    /\ arg.payload.k = "map"
    /\ arg.payload.endpoint = JStr(<<103>>)
    /\ arg.payload.params = Params({<<"id", "42">>})
    /\ arg.payload.json.k = "missing"
    /\ arg.payload.path.k = "missing"
    /\ ret.value.calls[1].body.k = "request"
    /\ ret.value.calls[1].body.payload.endpoint = JStr(<<103>>)
    /\ ret.value.calls[1].body.payload.params = Params({<<"id", "42">>})

\* the override of a name sets this field: it is present and not empty
OverrideSets(name, field) ==
    /\ name \in DOMAIN overrides.capabilities
    /\ overrides.capabilities[name][field].k = "some"
    /\ overrides.capabilities[name][field].v # <<>>

EndsWithSlash(u) == u # <<>> /\ u[Len(u)] = "/"

\* v is u without its trailing slashes
WithoutTrailingSlash(u, v) ==
    /\ ~EndsWithSlash(v)
    /\ Len(v) <= Len(u)
    /\ \A i \in 1..Len(u) : IF i <= Len(v) THEN u[i] = v[i] ELSE u[i] = "/"

(* C26: after every rebuild, the effective endpoint of each record is the
   override endpoint of its name, without trailing slash, if the override
   sets one, and otherwise the endpoint of the contract's own api block;
   the health-check path is the override's if it sets one and otherwise
   the contract's own; and no effective endpoint ends with "/". *)
C26_EffectiveEndpoint ==
    ev.rebuilt =>
        \A n \in DOMAIN records_by_name :
            LET r   == records_by_name[n]
                own == r.contract.api
            IN  /\ IF OverrideSets(n, "endpoint")
                   THEN /\ r.api_endpoint.k = "some"
                        /\ WithoutTrailingSlash(overrides.capabilities[n].endpoint.v,
                                                r.api_endpoint.v)
                   ELSE r.api_endpoint =
                            IF own.k = "some" THEN Some(own.v.endpoint) ELSE NoneV
                /\ IF OverrideSets(n, "health_check")
                   THEN r.health_check = Some(overrides.capabilities[n].health_check.v)
                   ELSE r.health_check =
                            IF own.k = "some" THEN Some(own.v.health_check) ELSE NoneV
                /\ r.api_endpoint.k = "some" => ~EndsWithSlash(r.api_endpoint.v)

\* a rebuild gave "b" the endpoint and the health path of its override and
\* "a", whose contract has no api block, the endpoint of its override only
C26_Witness ==
    /\ ev.rebuilt
    /\ NameB \in DOMAIN records_by_name
    /\ records_by_name[NameB].api_endpoint = Some(<<"http://o">>)
    /\ records_by_name[NameB].health_check = Some(<<"/hz">>)
    /\ NameA \in DOMAIN records_by_name
    /\ records_by_name[NameA].contract.api.k = "none"
    /\ records_by_name[NameA].api_endpoint = Some(<<"http://o2">>)
    /\ records_by_name[NameA].health_check = NoneV

(* C27: in every published snapshot, every provider list of the type index
   is strictly ascending (sorted, no name twice), every name in it is a key
   of the records map, and every record is listed under each type it
   provides and under the alias-normalized form of each such type. *)
C27_IndexInvariant ==
    /\ \A t \in DOMAIN providers_by_type :
          LET names == providers_by_type[t]
          IN  /\ \A i, j \in 1..Len(names) : i < j => StrLess(names[i], names[j])
              /\ Range(names) \subseteq DOMAIN records_by_name
    /\ \A n \in DOMAIN records_by_name :
          \A p \in Range(records_by_name[n].contract.provides) :
              /\ n \in Range(DictGet(providers_by_type, p, <<>>))
              /\ n \in Range(DictGet(providers_by_type, normalize_type(p), <<>>))

\* a snapshot with two names under one type, and with "b" listed under
\* "chat", which it provides only through the alias of "text-generation"
C27_Witness ==
    /\ DictGet(providers_by_type, "text-generation", <<>>) = <<NameA, NameB>>
    /\ NameB \in Range(DictGet(providers_by_type, "chat", <<>>))
    /\ "chat" \notin Range(records_by_name[NameB].contract.provides)

(* C28: after a rebuild the snapshot holds one record per valid contract
   file: the number of records equals the number of valid contract files
   under the root, also when two files declare the same name. *)
C28_OneRecordPerValidFile ==
    ev.rebuilt =>
        Cardinality(DOMAIN records_by_name) = Cardinality(ValidPaths(files))

\* the record's contract provides t, literally or as the normalized form of
\* a type it provides
ProvidesType(record, t) ==
    \E p \in Range(record.contract.provides) : p = t \/ normalize_type(p) = t

(* C29: for every type t of the snapshot, each name listed under t is the
   name of a record whose contract provides t literally or provides a type
   whose alias-normalized form is t, so that resolve_provider(t) returns
   no capability that does not provide t; for every set of contract files,
   files that share a name included. *)
C29_ListedProvidersProvide ==
    /\ \A t \in DOMAIN providers_by_type :
          \A n \in Range(providers_by_type[t]) :
              /\ n \in DOMAIN records_by_name
              /\ ProvidesType(records_by_name[n], t)
    /\ \A t \in Types :
          resolve_provider(t).k = "some" =>
              \/ ProvidesType(resolve_provider(t).v, t)
              \/ ProvidesType(resolve_provider(t).v, normalize_type(t))

\* the entries of a mapping that the rules of the claim call well-formed:
\* under capabilities a string key with a mapping value, under
\* provides_aliases a non-empty string key with a non-empty string value
WellFormedCapabilities(j) ==
    IF j.k # "dict" THEN {}
    ELSE {j.items[i] : i \in {i \in 1..Len(j.items) :
                                 /\ j.items[i].key.k = "str"
                                 /\ j.items[i].value.k = "map"}}

WellFormedAliases(j) ==
    IF j.k # "dict" THEN {}
    ELSE {j.items[i] : i \in {i \in 1..Len(j.items) :
                                 /\ IsNonEmptyStr(j.items[i].key, "")
                                 /\ IsNonEmptyStr(j.items[i].value, "")}}

\* the overrides hold exactly the well-formed entries of the document
KeepsWellFormed(raw, value) ==
    /\ DOMAIN value.capabilities =
          {item.key.v : item \in WellFormedCapabilities(raw.capabilities)}
    /\ \A item \in WellFormedCapabilities(raw.capabilities) :
          value.capabilities[item.key.v] =
              CapabilityOverride(get_optional(item.value.endpoint),
                                 get_optional(item.value.health_check))
    /\ DOMAIN value.provides_aliases =
          {item.key.v : item \in WellFormedAliases(raw.provides_aliases)}
    /\ \A item \in WellFormedAliases(raw.provides_aliases) :
          value.provides_aliases[item.key.v] = item.value.v

(* C30: load_overrides never raises: for an absent path, a missing file, a
   file whose content cannot be parsed and a document that is not a mapping
   it returns empty overrides, and for a mapping document it returns the
   well-formed entries under capabilities and provides_aliases and skips
   each malformed one. *)
C30_LoadOverridesNeverRaises ==
    ret.f = "load_overrides" =>
        /\ ret.raised = ""
        /\ LET file == arg.file
           IN  IF file.path /\ file.exists /\ file.text = "yaml" /\ file.raw.k = "map"
               THEN KeepsWellFormed(file.raw, ret.value)
               ELSE ret.value = EmptyOverrides

(* C31: each call of execute issues at most one outbound request and never
   sends it again: exactly one when the call raises no RoutingError, none
   when it raises NO_API, INVALID or UNSUPPORTED, and these are the only
   codes it raises; a call that was sent ends either with a decoded result
   or with the failure of the transport, and with no result then. *)
C31_AtMostOneProxiedRequest ==
    ret.f = "execute" =>
        LET call == ret.value
        IN  /\ Len(call.calls) <= 1
            /\ call.code \in {"", "NO_API", "INVALID", "UNSUPPORTED"}
            /\ call.code = "" <=> Len(call.calls) = 1
            /\ call.code # "" => call.result = NoResult /\ call.outcome = NoOutcome
            /\ call.code = "" =>
                  /\ call.outcome \in ProxiedOutcomes
                  /\ IF call.outcome.failed
                     THEN call.result = NoResult
                     ELSE /\ call.result.provider = arg.record.contract.name
                          /\ call.result.status_code = call.outcome.status_code

\* a call that was sent once and whose transport failed
C31_Witness ==
    /\ ret.f = "execute"
    /\ Len(ret.value.calls) = 1
    /\ ret.value.outcome.failed
    /\ ret.value.result = NoResult

\* the outcome is that of a health check that returned normally
ReturnedNormally(outcome) == ~outcome.failed /\ outcome.status_code < 400

(* C32: POST / makes its outbound calls in the order health check, proxied
   request: a proxied request is sent only after the GET of the same
   record's health URL was answered with a status below 400 in the same
   request; when the health check fails (no endpoint or health path,
   transport failure, status of 400 or more) no proxied request is sent and
   the response carries the code of the health check. *)
C32_HealthCheckBeforeProxy ==
    Executed =>
        LET record == resolve_provider(resp.type).v
            no_api == record.api_endpoint.k = "none" \/ record.health_check.k = "none"
        IN  /\ Len(resp.calls) <= 2
            /\ Len(resp.upstream) = Len(resp.calls)
            /\ no_api => resp.calls = <<>> /\ resp.code = "NO_API"
            /\ resp.calls # <<>> =>
                  /\ ~no_api
                  /\ resp.calls[1] =
                        Call("GET", record.api_endpoint.v \o record.health_check.v, JMissing)
                  /\ ~ReturnedNormally(resp.upstream[1]) =>
                        /\ Len(resp.calls) = 1
                        /\ resp.code = IF resp.upstream[1].failed THEN "UNREACHABLE"
                                                                  ELSE "UNHEALTHY"
            /\ Len(resp.calls) = 2 =>
                  /\ ReturnedNormally(resp.upstream[1])
                  /\ SubSeq(resp.calls[2].url, 1, Len(record.api_endpoint.v)) =
                        record.api_endpoint.v

\* a proxied request that followed a health check answered 399
C32_Witness ==
    /\ Executed
    /\ Len(resp.calls) = 2
    /\ resp.upstream[1] = Answered(399)
    /\ resp.calls[2].method = "POST"

\* status and last_error of the record agree
StatusAgreesWithError(record) ==
    /\ record.status \in {"unknown", "healthy", "unhealthy"}
    /\ record.status = "healthy" => record.last_error.k = "none"
    /\ record.status = "unhealthy" => record.last_error.k = "some"
    /\ record.status = "unknown" => record.last_error.k = "none"

(* C33: in every state that a registry listing observes, also while health
   checks of other requests are in flight, each record's status is unknown,
   healthy or unhealthy, a healthy and an unknown record have no last_error
   and an unhealthy record has one. *)
C33_StatusAgreesWithLastError ==
    ev.op = "list_capabilities" =>
        \A i \in 1..Len(list_capabilities) : StatusAgreesWithError(list_capabilities[i])

(* C34: the last health-check time and the status of a record come from the
   same health check: in every state, a record whose last health-check time
   is set does not show the status unknown. *)
C34_TimeAndStatusOfOneCheck ==
    \A n \in DOMAIN records_by_name :
        records_by_name[n].last_health_check_s.k = "some" =>
            records_by_name[n].status # "unknown"

(* C35: when GET /registry/{type}/health answers healthy or unhealthy, the
   record that the registry holds under the name of the checked capability
   shows that status, also when a rebuild replaced the snapshot while the
   health check was in flight. *)
C35_HealthResultReachesSnapshot ==
    (resp.route = "health" /\ resp.status \in {"healthy", "unhealthy"}) =>
        /\ resp.provider.v \in DOMAIN records_by_name
        /\ records_by_name[resp.provider.v].status = resp.status

\* the response of a GET /status?refresh=true
Refreshed == resp.route = "status" /\ resp.status = "refresh"

\* the listed records that have a health URL, in the order of the listing
WithHealthUrl(caps) == SelectSeq(caps, LAMBDA r : health_url(r).k = "some")

\* the position of the listed record among those with a health URL
CallIndex(caps, i) == Len(WithHealthUrl(SubSeq(caps, 1, i)))

(* C36: GET /status?refresh=true lists the capabilities in ascending name
   order and makes one health GET for each listed capability that has a
   health URL, in that order, and no other call; a capability whose check
   fails (NO_API without a call, a transport failure, a status of 400 or
   more) is unhealthy in the response and the capabilities after it are
   checked all the same, so that every capability of the response is
   healthy or unhealthy and none is unknown. *)
C36_RefreshChecksEveryCapability ==
    Refreshed =>
        LET caps == resp.data
        IN  /\ \A i \in 1..(Len(caps) - 1) :
                  StrLess(caps[i].contract.name, caps[i + 1].contract.name)
            /\ Len(resp.calls) = Len(WithHealthUrl(caps))
            /\ Len(resp.upstream) = Len(resp.calls)
            /\ \A i \in 1..Len(caps) :
                  /\ caps[i].status \in {"healthy", "unhealthy"}
                  /\ caps[i].last_health_check_s.k = "some"
                  /\ IF health_url(caps[i]).k = "none"
                     THEN caps[i].status = "unhealthy"
                     ELSE LET c == CallIndex(caps, i)
                          IN  /\ resp.calls[c] =
                                    Call("GET", health_url(caps[i]).v, JMissing)
                              /\ caps[i].status = "healthy"
                                    <=> ReturnedNormally(resp.upstream[c])

\* a refresh whose first capability, "a", failed with NO_API and whose
\* second, "b", was then checked and is healthy
C36_Witness ==
    /\ Refreshed
    /\ Len(resp.data) = 2
    /\ resp.data[1].contract.name = NameA
    /\ resp.data[1].status = "unhealthy"
    /\ resp.data[1].last_error.k = "some"
    /\ Len(resp.calls) = 1
    /\ resp.data[2].contract.name = NameB
    /\ resp.data[2].status = "healthy"

(* C37: for the records and the constraints document of a validate_stack
   that returns, the result in strict mode and the result in non-strict
   mode have the same ram and storage details; compatible in strict mode
   implies compatible in non-strict mode, and strict mode is compatible
   exactly when non-strict mode is and the RAM headroom is not a known
   value below 1024 MB: with a headroom of exactly 1024 MB or an unknown
   headroom both modes give the same verdict. *)
C37_StrictRefinesNonStrict ==
    Validated =>
        LET other  == validate_stack(arg.capabilities, constraints, ~strict_mode).value
            strict == IF strict_mode THEN ret.value ELSE other
            lax    == IF strict_mode THEN other ELSE ret.value
            room   == ret.value.details.ram.headroom_mb
            low    == room.k = "some" /\ room.v < 1024
        IN  /\ strict.details.ram = lax.details.ram
            /\ strict.details.storage = lax.details.storage
            /\ strict.compatible => lax.compatible
            /\ strict.compatible = (lax.compatible /\ ~low)
            /\ (room.k = "none" \/ room = Some(1024)) =>
                  strict.compatible = lax.compatible

\* the strict validator found a headroom of exactly 1024 MB compatible
C37_Witness ==
    /\ Validated
    /\ strict_mode
    /\ ret.value.details.ram.headroom_mb = Some(1024)
    /\ ret.value.details.storage.ok
    /\ ret.value.compatible

\* the names of the capabilities that the requested types resolve to
ResolvedNames(types) ==
    {resolve_provider(types[i]).v.contract.name :
        i \in {j \in 1..Len(types) : ~Unresolved(types[j])}}

\* the sum of a resource over the capabilities of these names, each once
RECURSIVE SumOnce(_, _)
SumOnce(names, key) ==
    IF names = {} THEN 0
    ELSE LET n == CHOOSE x \in names : TRUE
         IN  Amount(records_by_name[n].contract.resources[key])
                + SumOnce(names \ {n}, key)

(* C38: an answer of POST /validate/stack counts every capability once:
   the required RAM and storage of the details are the sums over the
   distinct capabilities that the requested types resolve to, also when two
   requested types, or one type requested twice, resolve to the same
   capability. *)
C38_EachCapabilityCountedOnce ==
    StackAnswered =>
        /\ resp.details.ram.required_mb = SumOnce(ResolvedNames(resp.types), "ram_mb")
        /\ resp.details.storage.required_mb =
              SumOnce(ResolvedNames(resp.types), "storage_mb")

\* the capabilities that state.json records
Recorded ==
    IF arg.state_json.k = "none" THEN {}
    ELSE {arg.state_json.v[i].capability_id : i \in 1..Len(arg.state_json.v)}

(* C39: whenever no apply is under way, every capability that an apply of
   the run has started and no destroy has stopped is recorded in the run's
   state.json, also after an apply that failed on a later capability; and
   a destroy runs compose down for every capability that was started, so
   that none is left up after a destroy that ended without error. *)
C39_StartedIsRecorded ==
    (arg.f = "run" /\ arg.pc = "idle") =>
        /\ arg.up \subseteq Recorded
        /\ (ret.f = "destroy" /\ ret.exit_code = 0) => arg.up = {}

====
